---- MODULE Spec2Model ----
(***************************************************************************)
(* Play-event ingestion, coalescing, classification, summary building,     *)
(* upload merge and rebuild of the wispie server (src/server).             *)
(*                                                                         *)
(* Units: every duration and timestamp is an integer number of             *)
(* milliseconds; Python's round(x, 2) on seconds is Round2 (nearest 10 ms, *)
(* ties to even).  play_ratio is kept in hundredths (0.95 is 95).          *)
(***************************************************************************)
EXTENDS Integers, Sequences, FiniteSets, TLC

VARIABLES
    stats_buffer,   \* UserService._stats_buffer: user -> sequence of StatsEntry
    is_flushing,    \* UserService._is_flushing
    sessions,       \* <user>_stats.db, table playsession: user -> (id -> row)
    events,         \* <user>_stats.db, table playevent: user -> rows in id order
    summary,        \* <user>_final_stats.json: user -> summary
    stats_db,       \* user -> whether <user>_stats.db exists
    upload,         \* the stats snapshot a client holds for upload
    lastOp,         \* the last request served: operation, user, argument
    nCalls,         \* number of calls served, of the kinds a specification bounds
    thread,         \* thread -> its position in flush_stats / get_stats_summary
    data_db,        \* user -> filenames in the favorite table of <user>_data.db
    timer,          \* the event loop's clock, relative to last_periodic_flush
    global_users,   \* usernames in the GlobalUser table
    queue           \* <user>_queue.json: user -> QueueState

vars == <<stats_buffer, is_flushing, sessions, events, summary, stats_db, upload,
          lastOp, nCalls, thread, data_db, timer, global_users, queue>>

----------------------------------------------------------------------------
(* Program constants *)

\* models.py: foreground_duration / background_duration default "unknown";
\* any non-number (the default, or None) is written Unknown here.
Unknown == -1

\* user_service.py: (total_length - duration_played) <= 10.0
TailWindow == 10000

\* user_service.py: stats.duration_played > 5.0
MinHistoryDuration == 5000

\* user_service.py: config.get("history_limit", 50)
DefaultHistoryLimit == 50

----------------------------------------------------------------------------
(* Python helpers *)

IsNumber(x) == x # Unknown

\* round(x, 2) on a value in seconds, here in milliseconds
Round2(x) ==
    LET q == x \div 10
        r == x % 10
    IN  IF r < 5 THEN 10 * q
        ELSE IF r > 5 THEN 10 * (q + 1)
        ELSE IF q % 2 = 0 THEN 10 * q ELSE 10 * (q + 1)

\* round(duration_played / total_length, 2) in hundredths; 0 when total_length <= 0
RatioPct(d, tl) ==
    IF tl > 0
    THEN LET n == 100 * d
             q == n \div tl
             r == n % tl
         IN  IF 2 * r < tl THEN q
             ELSE IF 2 * r > tl THEN q + 1
             ELSE IF q % 2 = 0 THEN q ELSE q + 1
    ELSE 0

\* ratio > 0.25, ratio < 0.2, ratio > 0.8, ratio > 0.2 with
\* ratio = (duration_played / total_length) if total_length > 0 else 0.0
RatioAtLeast025(d, tl) == tl > 0 /\ 4 * d >= tl   \* variant: ratio >= 0.25
RatioOver025(d, tl) == tl > 0 /\ 4 * d > tl
RatioUnder02(d, tl) == IF tl > 0 THEN 5 * d < tl ELSE TRUE
RatioOver08(d, tl)  == tl > 0 /\ 5 * d > 4 * tl
RatioOver02(d, tl)  == tl > 0 /\ 5 * d > tl

\* s[:n] of a Python list
Take(s, n) ==
    LET k == IF n >= 0 THEN (IF n < Len(s) THEN n ELSE Len(s))
             ELSE (IF Len(s) + n > 0 THEN Len(s) + n ELSE 0)
    IN  SubSeq(s, 1, k)

\* [h for h in history if h["filename"] != fn]
RECURSIVE WithoutFile(_, _)
WithoutFile(h, fn) ==
    IF h = <<>> THEN <<>>
    ELSE IF Head(h).filename = fn THEN WithoutFile(Tail(h), fn)
         ELSE <<Head(h)>> \o WithoutFile(Tail(h), fn)

\* list.sort(key=lambda x: x.timestamp): stable, ascending
RECURSIVE InsertByTs(_, _)
InsertByTs(sorted, e) ==
    IF sorted = <<>> THEN <<e>>
    ELSE IF Head(sorted).timestamp <= e.timestamp
         THEN <<Head(sorted)>> \o InsertByTs(Tail(sorted), e)
         ELSE <<e>> \o sorted

RECURSIVE SortByTs(_)
SortByTs(s) ==
    IF s = <<>> THEN <<>>
    ELSE InsertByTs(SortByTs(SubSeq(s, 1, Len(s) - 1)), s[Len(s)])

----------------------------------------------------------------------------
(* append_stats *)

\* variant: the early return taken only for a negative duration
AcceptsNonNegative(r) == ~(r.duration_played < 0 /\ r.event_type # "favorite")

\* the early return of append_stats
Accepts(r) == ~(r.duration_played <= 0 /\ r.event_type # "favorite")

----------------------------------------------------------------------------
(* flush_stats, step 0: coalescing *)

NumOrZero(x) == IF IsNumber(x) THEN x ELSE 0

\* variant: the merged report carries the play time of the later report only
MergeIntoLatestDuration(cur, nxt) ==
    [cur EXCEPT !.duration_played = nxt.duration_played,
                !.foreground_duration =
                    NumOrZero(cur.foreground_duration) + NumOrZero(nxt.foreground_duration),
                !.background_duration =
                    NumOrZero(cur.background_duration) + NumOrZero(nxt.background_duration),
                !.event_type = nxt.event_type,
                !.timestamp = nxt.timestamp,
                !.platform = nxt.platform]

\* variant: the accumulator keeps the event_type and timestamp of its first
\* report
MergeIntoKeepFirst(cur, nxt) ==
    [cur EXCEPT !.duration_played = cur.duration_played + nxt.duration_played,
                !.foreground_duration =
                    NumOrZero(cur.foreground_duration) + NumOrZero(nxt.foreground_duration),
                !.background_duration =
                    NumOrZero(cur.background_duration) + NumOrZero(nxt.background_duration),
                !.platform = nxt.platform]

\* "Merge into current_merged"
MergeInto(cur, nxt) ==
    [cur EXCEPT !.duration_played = cur.duration_played + nxt.duration_played,
                !.foreground_duration =
                    NumOrZero(cur.foreground_duration) + NumOrZero(nxt.foreground_duration),
                !.background_duration =
                    NumOrZero(cur.background_duration) + NumOrZero(nxt.background_duration),
                !.event_type = nxt.event_type,
                !.timestamp = nxt.timestamp,
                !.platform = nxt.platform]

SameRun(cur, nxt) ==
    /\ nxt.session_id = cur.session_id
    /\ nxt.song_filename = cur.song_filename

\* the loop over raw_events[1:], with the accumulator current_merged
RECURSIVE CoalesceFrom(_, _, _)
CoalesceFrom(done, cur, rest) ==
    IF rest = <<>> THEN Append(done, cur)
    ELSE IF SameRun(cur, Head(rest))
         THEN CoalesceFrom(done, MergeInto(cur, Head(rest)), Tail(rest))
         ELSE CoalesceFrom(Append(done, cur), Head(rest), Tail(rest))

Coalesce(raw) ==
    LET sorted == SortByTs(raw)
    IN  IF sorted = <<>> THEN <<>>
        ELSE CoalesceFrom(<<>>, Head(sorted), Tail(sorted))

----------------------------------------------------------------------------
(* flush_stats, step 1: the SQL store *)

\* stats.platform or "unknown"  (None is written "")
PlatformOr(p) == IF p = "" THEN "unknown" ELSE p

\* variant: the row of an existing session is overwritten by the new report
UpsertSessionOverwrite(sess, st) ==
    IF st.session_id \notin DOMAIN sess
    THEN sess @@ (st.session_id :>
            [start_time |-> st.timestamp, end_time |-> st.timestamp,
             platform |-> PlatformOr(st.platform)])
    ELSE [sess EXCEPT ![st.session_id] =
            [start_time |-> st.timestamp, end_time |-> st.timestamp,
             platform |-> PlatformOr(st.platform)]]

\* "Session logic": create the PlaySession row or widen it
UpsertSession(sess, st) ==
    IF st.session_id \notin DOMAIN sess
    THEN sess @@ (st.session_id :>
            [start_time |-> st.timestamp, end_time |-> st.timestamp,
             platform |-> PlatformOr(st.platform)])
    ELSE LET row == sess[st.session_id]
             widened ==
                [start_time |-> IF st.timestamp < row.start_time
                                THEN st.timestamp ELSE row.start_time,
                 end_time   |-> IF st.timestamp > row.end_time
                                THEN st.timestamp ELSE row.end_time,
                 platform   |-> IF row.platform = "unknown" /\ st.platform # ""
                                   /\ st.platform # "unknown"
                                THEN st.platform ELSE row.platform]
         IN  [sess EXCEPT ![st.session_id] = widened]

RECURSIVE UpsertSessions(_, _)
UpsertSessions(sess, batch) ==
    IF batch = <<>> THEN sess
    ELSE UpsertSessions(UpsertSession(sess, Head(batch)), Tail(batch))

\* variant: a strict window, exactly 10 s remaining keeps the reported type
FlushEventTypeStrict(et, d, tl) ==
    IF tl > 0 /\ (tl - d) < TailWindow THEN "complete" ELSE et

\* "Retroactively fix skips that are actually full plays (within 10s of end)"
FlushEventType(et, d, tl) ==
    IF tl > 0 /\ (tl - d) <= TailWindow THEN "complete" ELSE et

Reclassified(st) ==
    [st EXCEPT !.event_type =
        FlushEventType(st.event_type, st.duration_played, st.total_length)]

RoundOrNone(x) == IF IsNumber(x) THEN Round2(x) ELSE Unknown

\* PlayEvent(...) built from an already reclassified entry
EventRow(st) ==
    [session_id |-> st.session_id,
     song_filename |-> st.song_filename,
     event_type |-> st.event_type,
     timestamp |-> Round2(st.timestamp),
     duration_played |-> Round2(st.duration_played),
     total_length |-> Round2(st.total_length),
     play_ratio |-> RatioPct(st.duration_played, st.total_length),
     foreground_duration |-> RoundOrNone(st.foreground_duration),
     background_duration |-> RoundOrNone(st.background_duration)]

\* failAt = 0: no SQL error.  failAt = i in 1..n: the commit of iteration i
\* raises.  failAt = n+1: the final commit raises.  Iteration i commits the
\* session of entry i together with the PlayEvent added in iteration i-1.
IterationsDone(n, failAt) == IF failAt = 0 THEN n ELSE failAt - 1
EventsCommitted(n, failAt) ==
    IF failAt = 0 THEN n ELSE IF failAt >= 2 THEN failAt - 2 ELSE 0

\* the entries as the loop leaves them (stats.event_type is assigned in place)
BatchAfterStore(batch, failAt) ==
    [i \in 1..Len(batch) |->
        IF i <= IterationsDone(Len(batch), failAt)
        THEN Reclassified(batch[i]) ELSE batch[i]]

SessionsAfterStore(sess, batch, failAt) ==
    UpsertSessions(sess, SubSeq(batch, 1, IterationsDone(Len(batch), failAt)))

EventsAfterStore(evs, batch, failAt) ==
    evs \o [i \in 1..EventsCommitted(Len(batch), failAt) |->
                EventRow(Reclassified(batch[i]))]

----------------------------------------------------------------------------
(* flush_stats, step 2: the summary JSON *)

HistoryLimit(config) ==
    IF "history_limit" \in DOMAIN config THEN config["history_limit"]
    ELSE DefaultHistoryLimit

\* variant: the new entry is added in front, an earlier entry of the song stays
PushHistoryKeepOld(history, fn, ts, limit) ==
    LET h == <<[filename |-> fn, timestamp |-> ts]>> \o history
    IN  IF Len(h) > limit THEN Take(h, limit) ELSE h

\* remove the song's entry, insert the new one in front, cut to the limit
PushHistory(history, fn, ts, limit) ==
    LET h == <<[filename |-> fn, timestamp |-> ts]>> \o WithoutFile(history, fn)
    IN  IF Len(h) > limit THEN Take(h, limit) ELSE h

ShouldAddToHistory(st) ==
    \/ RatioOver025(st.duration_played, st.total_length)
    \/ st.duration_played > MinHistoryDuration

BumpPlatform(usage, p) ==
    IF p \in DOMAIN usage THEN [usage EXCEPT ![p] = @ + 1] ELSE usage @@ (p :> 1)

\* one iteration of "for stats in events" of step 2; sess is the session
\* table as the SQL step left it, seen the set of processed_sessions
SummaryStep(sm, st, sess, seen) ==
    LET d  == st.duration_played
        tl == st.total_length
        meaningful == RatioOver025(d, tl)
        newSession == st.session_id \notin seen /\ st.session_id \notin DOMAIN sess
    IN  [sm EXCEPT
            !.total_play_time = Round2(@ + d),
            !.total_foreground_playtime = Round2(@ + NumOrZero(st.foreground_duration)),
            !.total_background_playtime = Round2(@ + NumOrZero(st.background_duration)),
            !.total_songs_played = IF meaningful THEN @ + 1 ELSE @,
            !.total_skipped =
                IF st.event_type = "skip" /\ RatioUnder02(d, tl) THEN @ + 1 ELSE @,
            !.shuffle_state.history =
                IF ShouldAddToHistory(st)
                THEN PushHistory(@, st.song_filename, st.timestamp,
                                 HistoryLimit(sm.shuffle_state.config))
                ELSE @,
            !.total_songs_played_ratio_over_025 =
                IF st.event_type # "favorite" /\ RatioOver025(d, tl) THEN @ + 1 ELSE @,
            !.total_sessions = IF newSession THEN @ + 1 ELSE @,
            !.platform_usage =
                IF newSession THEN BumpPlatform(@, PlatformOr(st.platform)) ELSE @]

RECURSIVE SummaryFold(_, _, _, _)
SummaryFold(sm, batch, sess, seen) ==
    IF batch = <<>> THEN sm
    ELSE SummaryFold(SummaryStep(sm, Head(batch), sess, seen), Tail(batch), sess,
                     seen \cup {Head(batch).session_id})

\* _get_summary_no_flush of a user created by create_user, with the keys
\* flush_stats adds when missing (a missing counter reads as 0)
EmptyUsage == [p \in {} |-> 0]
EmptyConfig == [k \in {} |-> 0]
NewSummary ==
    [total_play_time |-> 0, total_sessions |-> 0,
     total_background_playtime |-> 0, total_foreground_playtime |-> 0,
     total_songs_played |-> 0, total_songs_played_ratio_over_025 |-> 0,
     total_skipped |-> 0, platform_usage |-> EmptyUsage,
     shuffle_state |-> [config |-> EmptyConfig, history |-> <<>>]]

\* a user's whole pass through the loop body of flush_stats
FlushUserSessions(sess, raw, failAt) == SessionsAfterStore(sess, Coalesce(raw), failAt)
FlushUserEvents(evs, raw, failAt) == EventsAfterStore(evs, Coalesce(raw), failAt)
FlushUserSummary(sm, sess, raw, failAt) ==
    SummaryFold(sm, BatchAfterStore(Coalesce(raw), failAt),
                SessionsAfterStore(sess, Coalesce(raw), failAt), {})

----------------------------------------------------------------------------
(* The modelled universe *)

Users == {"u1", "u2"}

\* StatsEntry(...)
Entry(sid, fn, d, tl, et, ts, pf, fg, bg) ==
    [session_id |-> sid, song_filename |-> fn, duration_played |-> d,
     total_length |-> tl, event_type |-> et, timestamp |-> ts, platform |-> pf,
     foreground_duration |-> fg, background_duration |-> bg]

NoEntry == Entry("", "", 0, 0, "", 0, "", Unknown, Unknown)
NoSessions == [s \in {} |-> 0]
NoUpload == [sessions |-> NoSessions, events |-> <<>>]
NoFail == [u \in Users |-> 0]

\* a served request: operation, user, report argument, SQL failure points of
\* the flush it ran, HTTP status of the response
OpS(op, u, arg, fail, status) ==
    [op |-> op, user |-> u, arg |-> arg, fail |-> fail, status |-> status]
Op(op, u, arg, fail) == OpS(op, u, arg, fail, 200)

\* the threads that run flush_stats side by side: the event loop with its
\* periodic task, and a worker of the thread pool serving GET /user/data
Threads == {"periodic", "request"}

NoBuffers == [u \in Users |-> <<>>]

\* pc: position; snap: the local buffer_snapshot; live: the lists of snap are
\* still the lists of the buffer dict (no clear() since the snapshot); owed:
\* play time of the user's reports accepted before the call began; result:
\* the summary returned
IdleThread ==
    [pc |-> "idle", snap |-> NoBuffers, live |-> FALSE, owed |-> 0, result |-> NewSummary]
IdleThreads == [t \in Threads |-> IdleThread]

\* QueueState(items, current_index, version); QueueState() stands for a
\* missing <user>_queue.json as well
QueueState(items, idx, ver) == [items |-> items, current_index |-> idx, version |-> ver]
NoQueues == [u \in Users |-> QueueState(<<>>, 0, 0)]

\* "if elapsed >= 300:  # 5 minutes", in seconds
FlushPeriod == 300

\* elapsed: loop.time() - last_periodic_flush; slept: time since the periodic
\* task went to sleep; since_periodic, since_explicit: time since the last
\* call of flush_stats by the periodic task (or its start) and since the end
\* of the last flush command; commanded: a flush command has been served.
\* Times are in seconds and are counted up to FlushPeriod.
StartTimer ==
    [elapsed |-> 0, slept |-> 0, since_periodic |-> 0,
     since_explicit |-> FlushPeriod, commanded |-> FALSE]

----------------------------------------------------------------------------
(* Handlers, each taken as one step *)

\* variant: the report is also added to the summary at once
AppendStatsEager(u, r) ==
    /\ stats_buffer' = IF Accepts(r)
                       THEN [stats_buffer EXCEPT ![u] = Append(@, r)]
                       ELSE stats_buffer
    /\ summary' = IF Accepts(r)
                  THEN [summary EXCEPT ![u].total_play_time = @ + r.duration_played + 1]
                  ELSE summary
    /\ lastOp' = Op("append_stats", u, r, NoFail)
    /\ nCalls' = nCalls + 1
    /\ UNCHANGED <<is_flushing, sessions, events, stats_db, upload, thread, data_db,
                   timer, global_users, queue>>

\* UserService.append_stats(username, stats)
AppendStats(u, r) ==
    /\ stats_buffer' = IF Accepts(r)
                       THEN [stats_buffer EXCEPT ![u] = Append(@, r)]
                       ELSE stats_buffer
    /\ lastOp' = Op("append_stats", u, r, NoFail)
    /\ nCalls' = nCalls + 1
    /\ UNCHANGED <<is_flushing, sessions, events, summary, stats_db, upload, thread, data_db,
                   timer, global_users, queue>>

\* a legal choice of SQL failure points for the batches now buffered
FailChoice(fail) ==
    \A u \in Users : fail[u] \in 0..(Len(Coalesce(stats_buffer[u])) + 1)
                     /\ (stats_buffer[u] = <<>> => fail[u] = 0)

\* the buffers, stores and summaries as a call of flush_stats leaves them
\* (nothing happens while another cycle holds the guard)
FlushedBuffer ==
    IF is_flushing THEN stats_buffer ELSE [u \in Users |-> <<>>]

FlushedSessions(fail) ==
    [u \in Users |->
        IF is_flushing \/ stats_buffer[u] = <<>> THEN sessions[u]
        ELSE FlushUserSessions(sessions[u], stats_buffer[u], fail[u])]

FlushedEventsAbort(fail) ==
    [u \in Users |->
        IF is_flushing \/ stats_buffer[u] = <<>> \/ (\E v \in Users : fail[v] # 0)
        THEN events[u]
        ELSE FlushUserEvents(events[u], stats_buffer[u], fail[u])]

FlushedEvents(fail) ==
    [u \in Users |->
        IF is_flushing \/ stats_buffer[u] = <<>> THEN events[u]
        ELSE FlushUserEvents(events[u], stats_buffer[u], fail[u])]

FlushedSummary(fail) ==
    [u \in Users |->
        IF is_flushing \/ stats_buffer[u] = <<>> THEN summary[u]
        ELSE FlushUserSummary(summary[u], sessions[u], stats_buffer[u], fail[u])]

FlushEffect(fail) ==
    /\ stats_buffer' = FlushedBuffer
    /\ sessions' = FlushedSessions(fail)
    /\ events' = FlushedEvents(fail)
    /\ summary' = FlushedSummary(fail)

\* UserService.flush_stats(), from the periodic task or the flush command
FlushStats(fail) ==
    /\ FailChoice(fail)
    /\ FlushEffect(fail)
    /\ lastOp' = Op("flush_stats", "", NoEntry, fail)
    /\ UNCHANGED <<is_flushing, stats_db, upload, nCalls, thread, data_db,
                   timer, global_users, queue>>

\* UserService.get_stats_summary(username): flush, then read the file; the
\* value returned is summary'[u]
GetStatsSummary(u, fail) ==
    /\ FailChoice(fail)
    /\ FlushEffect(fail)
    /\ lastOp' = Op("get_stats_summary", u, NoEntry, fail)
    /\ UNCHANGED <<is_flushing, stats_db, upload, nCalls, thread, data_db,
                   timer, global_users, queue>>

----------------------------------------------------------------------------
(* Spec: ingestion, flush and summary reads of two users *)

MaxCalls == 2

SongA == "a.mp3"
SongB == "b.mp3"

\* reports a client may send to /stats/track
Pool ==
    { Entry("s1", SongA, 120000, 200000, "complete", 1000, "ios", Unknown, Unknown),
      Entry("s1", SongA, 4000, 200000, "skip", 2000, "ios", 3000, 1000),
      Entry("s2", SongB, 0, 0, "favorite", 1500, "unknown", Unknown, Unknown),
      Entry("s2", SongB, 0, 200000, "listen", 3000, "", Unknown, Unknown),
      Entry("s1", SongB, -1000, 200000, "skip", 2500, "ios", Unknown, Unknown) }

FailSet == [Users -> 0..1]

Init ==
    /\ stats_buffer = [u \in Users |-> <<>>]
    /\ is_flushing = FALSE
    /\ sessions = [u \in Users |-> NoSessions]
    /\ events = [u \in Users |-> <<>>]
    /\ summary = [u \in Users |-> NewSummary]
    /\ stats_db = [u \in Users |-> TRUE]
    /\ upload = NoUpload
    /\ lastOp = Op("create_user", "", NoEntry, NoFail)
    /\ nCalls = 0
    /\ thread = IdleThreads
    /\ data_db = [u \in Users |-> {}]
    /\ timer = StartTimer
    /\ global_users = Users
    /\ queue = NoQueues

Next ==
    \/ \E u \in Users, r \in Pool : nCalls < MaxCalls /\ AppendStats(u, r)
    \/ \E fail \in FailSet : FlushStats(fail)
    \/ \E u \in Users, fail \in FailSet : GetStatsSummary(u, fail)

Spec == Init /\ [][Next]_vars

----------------------------------------------------------------------------
(* update_shuffle_state and the final_stats upload *)

\* variant: the new dict replaces the old one
DictReplace(old, new) == new

\* dict.update: keys of new override, the others stay
DictUpdate(old, new) ==
    [k \in (DOMAIN old) \cup (DOMAIN new) |-> IF k \in DOMAIN new THEN new[k] ELSE old[k]]

\* a request body {"config": ..., "history": ...}; either key may be absent.
\* A history is a list of {"filename", "timestamp"} or, legacy, of filenames.
ShuffleBody(hasConfig, config, kind, history) ==
    [has_config |-> hasConfig, config |-> config, kind |-> kind, history |-> history]

\* [{"filename": f, "timestamp": current_time - i} for i, f in enumerate(...)]
LegacyToTimestamped(names, now) ==
    [i \in 1..Len(names) |-> [filename |-> names[i], timestamp |-> now - 1000 * (i - 1)]]

\* the body of update_shuffle_state after its flush; kind is "absent",
\* "dicts" (history holds entries) or "strings" (history holds filenames)
ApplyShuffleState(sm, body, now) ==
    LET cfg == IF body.has_config
               THEN DictUpdate(sm.shuffle_state.config, body.config)
               ELSE sm.shuffle_state.config
        hist == IF body.kind = "absent" THEN sm.shuffle_state.history
                ELSE IF body.kind = "strings"
                     THEN LegacyToTimestamped(body.history, now)
                     ELSE body.history
    IN  [sm EXCEPT !.shuffle_state = [config |-> cfg, history |-> hist]]

\* UserService.update_shuffle_state(username, shuffle_state_data)
UpdateShuffleState(u, body, now, fail) ==
    /\ FailChoice(fail)
    /\ stats_buffer' = FlushedBuffer
    /\ sessions' = FlushedSessions(fail)
    /\ events' = FlushedEvents(fail)
    /\ summary' = [FlushedSummary(fail) EXCEPT ![u] = ApplyShuffleState(@, body, now)]
    /\ lastOp' = Op("update_shuffle_state", u, NoEntry, fail)
    /\ nCalls' = nCalls + 1
    /\ UNCHANGED <<is_flushing, stats_db, upload, thread, data_db,
                   timer, global_users, queue>>

\* variant: every uploaded entry is added
AddAllEntries(server, uploaded) == server \o uploaded

\* "Only add entries that don't exist in server history"
RECURSIVE AddNewEntries(_, _)
AddNewEntries(server, uploaded) ==
    IF uploaded = <<>> THEN server
    ELSE LET h == Head(uploaded)
             known == {server[i].filename : i \in 1..Len(server)}
         IN  IF h.filename # "" /\ h.filename \notin known
             THEN AddNewEntries(Append(server, h), Tail(uploaded))
             ELSE AddNewEntries(server, Tail(uploaded))

\* list.sort(key=timestamp, reverse=True): stable, descending
RECURSIVE InsertByTsDesc(_, _)
InsertByTsDesc(sorted, e) ==
    IF sorted = <<>> THEN <<e>>
    ELSE IF Head(sorted).timestamp >= e.timestamp
         THEN <<Head(sorted)>> \o InsertByTsDesc(Tail(sorted), e)
         ELSE <<e>> \o sorted

RECURSIVE SortByTsDesc(_)
SortByTsDesc(s) ==
    IF s = <<>> THEN <<>>
    ELSE InsertByTsDesc(SortByTsDesc(SubSeq(s, 1, Len(s) - 1)), s[Len(s)])

\* variant: the counters of the uploaded summary are taken over as well
MergeFinalStatsWithCounters(sm, body) ==
    LET cfg == IF body.has_config
               THEN DictUpdate(sm.shuffle_state.config, body.config)
               ELSE sm.shuffle_state.config
        hist == IF body.kind = "absent" THEN sm.shuffle_state.history
                ELSE Take(SortByTsDesc(AddNewEntries(sm.shuffle_state.history,
                                                     body.history)),
                          HistoryLimit(cfg))
    IN  [sm EXCEPT !.shuffle_state = [config |-> cfg, history |-> hist],
                   !.total_play_time = body.total_play_time,
                   !.total_sessions = body.total_sessions]

\* the final_stats branch of upload_user_db, for an upload that carries a
\* shuffle_state with entries in the {"filename", "timestamp"} form; the
\* other keys of the uploaded summary are not read
MergeFinalStats(sm, body) ==
    LET cfg == IF body.has_config
               THEN DictUpdate(sm.shuffle_state.config, body.config)
               ELSE sm.shuffle_state.config
        hist == IF body.kind = "absent" THEN sm.shuffle_state.history
                ELSE Take(SortByTsDesc(AddNewEntries(sm.shuffle_state.history,
                                                     body.history)),
                          HistoryLimit(cfg))
    IN  [sm EXCEPT !.shuffle_state = [config |-> cfg, history |-> hist]]

\* POST /user/db/final_stats
UploadFinalStats(u, body) ==
    /\ summary' = [summary EXCEPT ![u] = MergeFinalStats(@, body)]
    /\ lastOp' = Op("upload_final_stats", u, NoEntry, NoFail)
    /\ nCalls' = nCalls + 1
    /\ UNCHANGED <<stats_buffer, is_flushing, sessions, events, stats_db, upload, thread, data_db,
                   timer, global_users, queue>>

----------------------------------------------------------------------------
(* migrate_skips_logic.rebuild_user_stats *)

\* step 1, "Check 10s rule": only 'skip' rows are touched
RebuildEventType(et, d, tl) ==
    IF et = "skip" /\ tl > 0 /\ (tl - d) <= TailWindow THEN "complete" ELSE et

RebuildEvents(evs) ==
    [i \in 1..Len(evs) |->
        [evs[i] EXCEPT !.event_type =
            RebuildEventType(evs[i].event_type, evs[i].duration_played,
                             evs[i].total_length)]]

RebuildMeaningful(ev) ==
    \/ ev.event_type \in {"complete", "listen"}
    \/ RatioOver08(ev.duration_played, ev.total_length)
    \/ (ev.event_type # "favorite" /\ RatioOver02(ev.duration_played, ev.total_length))

\* one iteration of "for stats in events" of step 2
RebuildStep(sm, ev) ==
    LET d  == ev.duration_played
        tl == ev.total_length
        meaningful == RebuildMeaningful(ev)
    IN  [sm EXCEPT
            !.total_play_time = Round2(@ + d),
            !.total_foreground_playtime = Round2(@ + NumOrZero(ev.foreground_duration)),
            !.total_background_playtime = Round2(@ + NumOrZero(ev.background_duration)),
            !.total_songs_played =
                IF ev.event_type # "favorite" /\ meaningful THEN @ + 1 ELSE @,
            !.total_skipped =
                IF ev.event_type = "skip" /\ RatioUnder02(d, tl) THEN @ + 1 ELSE @,
            !.shuffle_state.history =
                IF meaningful
                THEN PushHistory(@, ev.song_filename, ev.timestamp, DefaultHistoryLimit)
                ELSE @,
            !.total_songs_played_ratio_over_025 =
                IF ev.event_type # "favorite" /\ RatioOver025(d, tl) THEN @ + 1 ELSE @]

RECURSIVE RebuildFold(_, _)
RebuildFold(sm, evs) ==
    IF evs = <<>> THEN sm ELSE RebuildFold(RebuildStep(sm, Head(evs)), Tail(evs))

\* "Re-calculate platform usage and total sessions from PlaySession table"
RECURSIVE CountPlatforms(_, _)
CountPlatforms(sess, ids) ==
    IF ids = {} THEN EmptyUsage
    ELSE LET id == CHOOSE x \in ids : TRUE
         IN  BumpPlatform(CountPlatforms(sess, ids \ {id}), PlatformOr(sess[id].platform))

\* variant: the rebuilt summary starts with the empty config of the reset
RebuildSummaryDropConfig(evs, sess, old) ==
    LET counted == RebuildFold(NewSummary, SortByTs(evs))
        hist == counted.shuffle_state.history
    IN  [counted EXCEPT
            !.total_sessions = Cardinality(DOMAIN sess),
            !.platform_usage = CountPlatforms(sess, DOMAIN sess),
            !.shuffle_state =
                [config |-> EmptyConfig,
                 history |-> IF Len(hist) > DefaultHistoryLimit
                             THEN Take(hist, DefaultHistoryLimit) ELSE hist]]

\* variant: the counters continue from the summary on disk instead of from 0
RebuildSummaryOnTop(evs, sess, old) ==
    LET counted == RebuildFold(old, SortByTs(evs))
        limit == HistoryLimit(old.shuffle_state.config)
        hist == counted.shuffle_state.history
    IN  [counted EXCEPT
            !.total_sessions = Cardinality(DOMAIN sess),
            !.platform_usage = CountPlatforms(sess, DOMAIN sess),
            !.shuffle_state =
                [config |-> old.shuffle_state.config,
                 history |-> IF Len(hist) > limit THEN Take(hist, limit) ELSE hist]]

\* the summary written by rebuild_user_stats; evs are the rows after step 1,
\* read back ordered by timestamp (rows of equal timestamp in id order)
RebuildSummary(evs, sess, old) ==
    LET counted == RebuildFold(NewSummary, SortByTs(evs))
        limit == HistoryLimit(old.shuffle_state.config)
        hist == counted.shuffle_state.history
    IN  [counted EXCEPT
            !.total_sessions = Cardinality(DOMAIN sess),
            !.platform_usage = CountPlatforms(sess, DOMAIN sess),
            !.shuffle_state =
                [config |-> old.shuffle_state.config,
                 history |-> IF Len(hist) > limit THEN Take(hist, limit) ELSE hist]]

\* rebuild_user_stats(username), run offline
Rebuild(u) ==
    /\ events' = [events EXCEPT ![u] = RebuildEvents(@)]
    /\ summary' = [summary EXCEPT ![u] =
                      RebuildSummary(RebuildEvents(events[u]), sessions[u], @)]
    /\ lastOp' = Op("rebuild_user_stats", u, NoEntry, NoFail)
    /\ nCalls' = nCalls + 1
    /\ UNCHANGED <<stats_buffer, is_flushing, sessions, stats_db, upload, thread, data_db,
                   timer, global_users, queue>>

----------------------------------------------------------------------------
(* POST /user/db/stats: the stats-snapshot merge of upload_user_db *)

\* variant: INSERT OR REPLACE, the uploaded session row wins
MergeSessionsReplace(local, foreign) ==
    [id \in (DOMAIN local) \cup (DOMAIN foreign) |->
        IF id \in DOMAIN foreign THEN foreign[id] ELSE local[id]]

\* "Merge play sessions (by ID, only add new)"
MergeSessions(local, foreign) ==
    [id \in (DOMAIN local) \cup (DOMAIN foreign) |->
        IF id \in DOMAIN local THEN local[id] ELSE foreign[id]]

\* variant: the duplicate check also compares session_id
EventKeyWithSession(row) == <<row.timestamp, row.song_filename, row.session_id>>

\* WHERE timestamp = :ts AND song_filename = :fn
EventKey(row) == <<row.timestamp, row.song_filename>>

\* variant: every uploaded event is inserted, without the duplicate check
MergeEventsNoCheck(local, foreign) == local \o foreign

\* "Merge play events (check by timestamp+song to avoid duplicates)"; the
\* SELECT runs in the inserting transaction and sees the rows it has inserted
RECURSIVE MergeEvents(_, _)
MergeEvents(local, foreign) ==
    IF foreign = <<>> THEN local
    ELSE IF \E i \in 1..Len(local) : EventKey(local[i]) = EventKey(Head(foreign))
         THEN MergeEvents(local, Tail(foreign))
         ELSE MergeEvents(Append(local, Head(foreign)), Tail(foreign))

\* upload_user_db(db_type="stats"): without a server file the upload becomes
\* the store; otherwise the merge is committed and the call of
\* user_service.recalculate_final_stats that follows raises (UserService has
\* no such method), which the handler turns into HTTP 500
UploadStatsDb(u, snap) ==
    /\ IF ~stats_db[u]
       THEN /\ sessions' = [sessions EXCEPT ![u] = snap.sessions]
            /\ events' = [events EXCEPT ![u] = snap.events]
            /\ stats_db' = [stats_db EXCEPT ![u] = TRUE]
            /\ lastOp' = OpS("upload_stats_db", u, NoEntry, NoFail, 200)
       ELSE /\ sessions' = [sessions EXCEPT ![u] = MergeSessions(@, snap.sessions)]
            /\ events' = [events EXCEPT ![u] = MergeEvents(@, snap.events)]
            /\ stats_db' = stats_db
            /\ lastOp' = OpS("upload_stats_db", u, NoEntry, NoFail, 500)
    /\ UNCHANGED <<stats_buffer, is_flushing, summary, upload, nCalls, thread, data_db,
                   timer, global_users, queue>>

----------------------------------------------------------------------------
(* SpecMerge: one user's store L and a foreign snapshot F, then merges *)

MaxLocalEvents == 2
MaxForeignEvents == 2

Row(sid, fn, et, ts, d, tl, pr, fg, bg) ==
    [session_id |-> sid, song_filename |-> fn, event_type |-> et, timestamp |-> ts,
     duration_played |-> d, total_length |-> tl, play_ratio |-> pr,
     foreground_duration |-> fg, background_duration |-> bg]

\* rows of a playevent table; the first two share (timestamp, song_filename)
\* and differ in every other field
MergeRows ==
    { Row("s1", SongA, "skip", 1000, 4000, 200000, 2, Unknown, Unknown),
      Row("s2", SongA, "complete", 1000, 195000, 200000, 98, 195000, 0),
      Row("s1", SongB, "listen", 1000, 60000, 200000, 30, Unknown, Unknown),
      Row("s1", SongA, "skip", 2000, 4000, 200000, 2, Unknown, Unknown) }

SeqsUpTo(S, n) == UNION {[1..k -> S] : k \in 0..n}

LocalSessionRow == [start_time |-> 1000, end_time |-> 2000, platform |-> "ios"]
ForeignSessionRow == [start_time |-> 500, end_time |-> 3000, platform |-> "android"]

LocalSessionTables == {[id \in ids |-> LocalSessionRow] : ids \in SUBSET {"s1"}}
ForeignSessionTables ==
    {[id \in ids |-> ForeignSessionRow] : ids \in {{}, {"s1"}, {"s1", "s2"}}}

\* the server store is any table contents an earlier upload can have left
\* (an upload onto a missing file is moved in as it is), or no file at all
InitMerge ==
    /\ stats_buffer = [u \in Users |-> <<>>]
    /\ is_flushing = FALSE
    /\ summary = [u \in Users |-> NewSummary]
    /\ stats_db \in {[u \in Users |-> TRUE], [u \in Users |-> u # "u1"]}
    /\ \E ls \in LocalSessionTables, le \in SeqsUpTo(MergeRows, MaxLocalEvents) :
          /\ (~stats_db["u1"] => ls = NoSessions /\ le = <<>>)
          /\ sessions = [u \in Users |-> IF u = "u1" THEN ls ELSE NoSessions]
          /\ events = [u \in Users |-> IF u = "u1" THEN le ELSE <<>>]
    /\ \E fs \in ForeignSessionTables, fe \in SeqsUpTo(MergeRows, MaxForeignEvents) :
          upload = [sessions |-> fs, events |-> fe]
    /\ lastOp = Op("create_user", "", NoEntry, NoFail)
    /\ nCalls = 0
    /\ thread = IdleThreads
    /\ data_db = [u \in Users |-> {}]
    /\ timer = StartTimer
    /\ global_users = Users
    /\ queue = NoQueues

NextMerge == UploadStatsDb("u1", upload)

SpecMerge == InitMerge /\ [][NextMerge]_vars

----------------------------------------------------------------------------
(* SpecLive: append_stats and failure-free flush cycles of two new users *)

NextLive ==
    \/ \E u \in Users, r \in Pool : nCalls < MaxCalls /\ AppendStats(u, r)
    \/ FlushStats(NoFail)

SpecLive == Init /\ [][NextLive]_vars

----------------------------------------------------------------------------
(* SpecCoalesce: one user's reports of a few listens, flushed in batches *)

MaxBatch == 3

LiveUser == "u1"

\* heartbeats of one listen of a.mp3 in session s1 (the last one reporting
\* complete, with a duration and a timestamp finer than 10 ms), a report of
\* another song that falls between them in time, and reports of another
\* session
CoalescePool ==
    { Entry("s1", SongA, 10000, 100000, "listen", 1000, "ios", Unknown, Unknown),
      Entry("s1", SongA, 15000, 100000, "skip", 2000, "", 15000, 0),
      Entry("s1", SongA, 20004, 100000, "complete", 3004, "unknown", Unknown, 2000),
      Entry("s1", SongB, 6000, 100000, "skip", 1500, "ios", Unknown, Unknown),
      Entry("s2", SongA, 45000, 100000, "skip", 2500, "android", 45000, Unknown),
      Entry("s2", SongA, 45000, 0, "listen", 2000, "android", Unknown, Unknown) }

NextCoalesce ==
    \/ \E r \in CoalescePool : nCalls < MaxBatch /\ AppendStats(LiveUser, r)
    \/ FlushStats(NoFail)

SpecCoalesce == Init /\ [][NextCoalesce]_vars

----------------------------------------------------------------------------
(* SpecClassify: reports of every type on both sides of the 10 s window *)

MaxClassify == 2

ClassifyTypes == {"listen", "skip", "favorite", "complete"}

\* played 90 s, 89.9 s, 105 s and 45 s of a 100 s track; 5 s of a track of
\* unknown length (total_length 0)
ClassifyPool ==
    {Entry("s1", SongA, d, 100000, et, 1000, "ios", Unknown, Unknown) :
        d \in {90000, 89900, 105000, 45000}, et \in ClassifyTypes}
    \cup {Entry("s1", SongA, 5000, 0, et, 1000, "ios", Unknown, Unknown) :
        et \in ClassifyTypes}
    \cup {Entry("s1", SongB, 0, tl, "favorite", 1000, "ios", Unknown, Unknown) :
        tl \in {0, 8000}}

NextClassify ==
    \/ \E r \in ClassifyPool : nCalls < MaxClassify /\ AppendStats(LiveUser, r)
    \/ FlushStats(NoFail)

SpecClassify == Init /\ [][NextClassify]_vars

----------------------------------------------------------------------------
(* SpecShuffle: plays, shuffle-state updates and final_stats uploads *)

MaxShuffleCalls == 3

SongC == "c.mp3"

ShufflePool ==
    { Entry("s1", SongA, 120000, 200000, "complete", 1000, "ios", Unknown, Unknown),
      Entry("s1", SongB, 120000, 200000, "complete", 2000, "ios", Unknown, Unknown),
      Entry("s1", SongC, 3000, 200000, "skip", 3000, "ios", Unknown, Unknown) }

LimitConfig(n) == [k \in {"history_limit"} |-> n]

\* bodies of POST /stats/shuffle-state
ShuffleBodies ==
    { ShuffleBody(TRUE, LimitConfig(1), "absent", <<>>),
      ShuffleBody(TRUE, LimitConfig(2), "absent", <<>>),
      ShuffleBody(FALSE, EmptyConfig, "strings", <<SongA, SongB>>),
      ShuffleBody(FALSE, EmptyConfig, "dicts",
                  <<[filename |-> SongC, timestamp |-> 2500]>>) }

\* the counters of a summary file that a client uploads along with its
\* shuffle_state
UploadedCounters == [total_play_time |-> 999000, total_sessions |-> 9]

\* bodies of POST /user/db/final_stats
FinalStatsBodies ==
    { ShuffleBody(TRUE, LimitConfig(1), "dicts",
                  <<[filename |-> SongC, timestamp |-> 2500]>>) @@ UploadedCounters,
      ShuffleBody(FALSE, EmptyConfig, "dicts",
                  <<[filename |-> SongA, timestamp |-> 500],
                    [filename |-> SongC, timestamp |-> 2500],
                    [filename |-> SongC, timestamp |-> 4000]>>) @@ UploadedCounters }

ClockSet == {5000}

NextShuffle ==
    \/ \E r \in ShufflePool : nCalls < MaxShuffleCalls /\ AppendStats(LiveUser, r)
    \/ FlushStats(NoFail)
    \/ \E b \in ShuffleBodies, now \in ClockSet :
          nCalls < MaxShuffleCalls /\ UpdateShuffleState(LiveUser, b, now, NoFail)
    \/ \E b \in FinalStatsBodies :
          nCalls < MaxShuffleCalls /\ UploadFinalStats(LiveUser, b)

SpecShuffle == Init /\ [][NextShuffle]_vars

----------------------------------------------------------------------------
(* SpecRebuild: a stored history and an old summary, then rebuilds *)

MaxRebuilds == 2
MaxStoredEvents == 2

\* rows as older rules or a merged snapshot left them: skips of a 100 s
\* track played 95 s, 105 s, 90 s, 89.9 s and 10 s, a short listen and a
\* favorite marker
RebuildRows ==
    { Row("s1", SongA, "skip", 1000, 95000, 100000, 95, Unknown, Unknown),
      Row("s1", SongB, "skip", 1000, 105000, 100000, 105, 105000, 0),
      Row("s1", SongA, "skip", 2000, 90000, 100000, 90, Unknown, Unknown),
      Row("s2", SongB, "skip", 2000, 89900, 100000, 90, Unknown, Unknown),
      Row("s2", SongC, "skip", 3000, 10000, 100000, 10, Unknown, Unknown),
      Row("s2", SongC, "listen", 1500, 10000, 100000, 10, 4000, 6000),
      Row("s1", SongA, "favorite", 2500, 0, 0, 0, Unknown, Unknown) }

StaleSummary ==
    [NewSummary EXCEPT !.total_play_time = 7000, !.total_songs_played = 3,
                       !.shuffle_state = [config |-> LimitConfig(1),
                                          history |-> <<[filename |-> SongC,
                                                         timestamp |-> 100]>>]]

InitRebuild ==
    /\ stats_buffer = [u \in Users |-> <<>>]
    /\ is_flushing = FALSE
    /\ stats_db = [u \in Users |-> TRUE]
    /\ upload = NoUpload
    /\ \E ls \in {[id \in ids |-> LocalSessionRow] : ids \in {{}, {"s1", "s2"}}},
          le \in SeqsUpTo(RebuildRows, MaxStoredEvents) :
          /\ sessions = [u \in Users |-> IF u = LiveUser THEN ls ELSE NoSessions]
          /\ events = [u \in Users |-> IF u = LiveUser THEN le ELSE <<>>]
    /\ \E sm \in {NewSummary, StaleSummary} :
          summary = [u \in Users |-> IF u = LiveUser THEN sm ELSE NewSummary]
    /\ lastOp = Op("create_user", "", NoEntry, NoFail)
    /\ nCalls = 0
    /\ thread = IdleThreads
    /\ data_db = [u \in Users |-> {}]
    /\ timer = StartTimer
    /\ global_users = Users
    /\ queue = NoQueues

NextRebuild == nCalls < MaxRebuilds /\ Rebuild(LiveUser)

SpecRebuild == InitRebuild /\ [][NextRebuild]_vars

----------------------------------------------------------------------------
(* Favorites and the uploads that upload_user_db refuses *)

\* UserService.add_favorite(username, song_filename, session_id): a new
\* favorite is committed and logged as a zero-duration marker report
AddFavorite(u, fn, sid, now) ==
    /\ IF fn \in data_db[u]
       THEN UNCHANGED <<data_db, stats_buffer,
                   timer, global_users, queue>>
       ELSE /\ data_db' = [data_db EXCEPT ![u] = @ \cup {fn}]
            /\ stats_buffer' =
                  LET r == Entry(sid, fn, 0, 0, "favorite", now, "unknown", Unknown, Unknown)
                  IN  IF Accepts(r) THEN [stats_buffer EXCEPT ![u] = Append(@, r)]
                      ELSE stats_buffer
    /\ lastOp' = Op("add_favorite", u, NoEntry, NoFail)
    /\ nCalls' = nCalls + 1
    /\ UNCHANGED <<is_flushing, sessions, events, summary, stats_db, upload, thread,
                   timer, global_users, queue>>

\* UserService.remove_favorite(username, song_filename)
RemoveFavorite(u, fn) ==
    /\ data_db' = [data_db EXCEPT ![u] = @ \ {fn}]
    /\ lastOp' = Op("remove_favorite", u, NoEntry, NoFail)
    /\ nCalls' = nCalls + 1
    /\ UNCHANGED <<stats_buffer, is_flushing, sessions, events, summary, stats_db,
                   upload, thread,
                   timer, global_users, queue>>

\* db_type values a client may put in POST /user/db/{db_type}
DbTypes == {"data", "stats", "final_stats", "backup"}

\* variant: the uploaded file replaces the user's stores (an empty data
\* file and the uploaded stats tables)
UploadReplacesStore(u, db_type) ==
    /\ db_type \notin {"stats", "final_stats"}
    /\ data_db' = [data_db EXCEPT ![u] = {}]
    /\ sessions' = [sessions EXCEPT ![u] = upload.sessions]
    /\ events' = [events EXCEPT ![u] = upload.events]
    /\ lastOp' = OpS("upload_rejected", u, NoEntry, NoFail, 400)
    /\ nCalls' = nCalls + 1
    /\ UNCHANGED <<stats_buffer, is_flushing, summary, stats_db, upload, thread,
                   timer, global_users, queue>>

\* upload_user_db for db_type "data" and for a db_type that is none of data,
\* stats, final_stats: HTTPException(400) before any file is touched
UploadRejected(u, db_type) ==
    /\ db_type \notin {"stats", "final_stats"}
    /\ lastOp' = OpS("upload_rejected", u, NoEntry, NoFail, 400)
    /\ nCalls' = nCalls + 1
    /\ UNCHANGED <<stats_buffer, is_flushing, sessions, events, summary, stats_db,
                   upload, thread, data_db,
                   timer, global_users, queue>>

----------------------------------------------------------------------------
(* SpecUpload: a user with favorites and a store, and uploads of every kind *)

MaxUploads == 3

InitUpload ==
    /\ stats_buffer = [u \in Users |-> <<>>]
    /\ is_flushing = FALSE
    /\ stats_db = [u \in Users |-> TRUE]
    /\ \E le \in SeqsUpTo(MergeRows, 1), sm \in {NewSummary, StaleSummary} :
          /\ sessions = [u \in Users |->
                IF u = LiveUser /\ le # <<>>
                THEN [id \in {le[1].session_id} |-> LocalSessionRow] ELSE NoSessions]
          /\ events = [u \in Users |-> IF u = LiveUser THEN le ELSE <<>>]
          /\ summary = [u \in Users |-> IF u = LiveUser THEN sm ELSE NewSummary]
    /\ \E fs \in ForeignSessionTables, fe \in SeqsUpTo(MergeRows, 1) :
          upload = [sessions |-> fs, events |-> fe]
    /\ lastOp = Op("create_user", "", NoEntry, NoFail)
    /\ nCalls = 0
    /\ thread = IdleThreads
    /\ data_db = [u \in Users |-> {}]
    /\ timer = StartTimer
    /\ global_users = Users
    /\ queue = NoQueues

NextUpload ==
    \/ \E fn \in {SongA, SongB} :
          nCalls < MaxUploads /\ AddFavorite(LiveUser, fn, "s1", 5000)
    \/ \E fn \in {SongA} : nCalls < MaxUploads /\ RemoveFavorite(LiveUser, fn)
    \/ \E t \in DbTypes : nCalls < MaxUploads /\ UploadRejected(LiveUser, t)
    \/ UploadStatsDb(LiveUser, upload)
    \/ \E b \in FinalStatsBodies : nCalls < MaxUploads /\ UploadFinalStats(LiveUser, b)

SpecUpload == InitUpload /\ [][NextUpload]_vars

----------------------------------------------------------------------------
(* SpecConfig: plays, flushes with and without SQL errors, rebuilds and the *)
(* two operations that set the shuffle config                               *)

MaxConfigCalls == 3

NextConfig ==
    \/ \E r \in ShufflePool : nCalls < MaxConfigCalls /\ AppendStats(LiveUser, r)
    \/ \E fail \in FailSet : FlushStats(fail)
    \/ nCalls < MaxConfigCalls /\ Rebuild(LiveUser)
    \/ \E b \in ShuffleBodies, now \in ClockSet :
          nCalls < MaxConfigCalls /\ UpdateShuffleState(LiveUser, b, now, NoFail)
    \/ \E b \in FinalStatsBodies :
          nCalls < MaxConfigCalls /\ UploadFinalStats(LiveUser, b)

SpecConfig == Init /\ [][NextConfig]_vars

----------------------------------------------------------------------------
(* SpecConc: flush_stats statement by statement, run by two threads *)

MaxConcAppends == 2

ReadUser == "u1"
ConcReport == Entry("s1", SongA, 120000, 200000, "complete", 1000, "ios", Unknown, Unknown)

Returns(t) == IF t = "request" THEN "read" ELSE "idle"

\* a thread enters flush_stats: the periodic task directly, the request
\* thread through get_stats_summary(ReadUser)
BeginCall(t) ==
    /\ thread[t].pc \in {"idle", "returned"}
    /\ thread' = [thread EXCEPT ![t] =
                     [IdleThread EXCEPT !.pc = "check",
                                        !.owed = nCalls * ConcReport.duration_played]]
    /\ UNCHANGED <<stats_buffer, is_flushing, sessions, events, summary, stats_db,
                   upload, lastOp, nCalls, data_db,
                   timer, global_users, queue>>

\* "if self._is_flushing: return"
CheckFlushing(t) ==
    /\ thread[t].pc = "check"
    /\ thread' = [thread EXCEPT ![t].pc = IF is_flushing THEN Returns(t) ELSE "any"]
    /\ UNCHANGED <<stats_buffer, is_flushing, sessions, events, summary, stats_db,
                   upload, lastOp, nCalls, data_db,
                   timer, global_users, queue>>

\* "if not any(self._stats_buffer.values()):", else
\* "self._is_flushing = True"
SetFlushing(t) ==
    /\ thread[t].pc = "any"
    /\ IF \A u \in Users : stats_buffer[u] = <<>>
       THEN /\ thread' = [thread EXCEPT ![t].pc = "drop"]
            /\ UNCHANGED is_flushing
       ELSE /\ thread' = [thread EXCEPT ![t].pc = "snapshot"]
            /\ is_flushing' = TRUE
    /\ UNCHANGED <<stats_buffer, sessions, events, summary, stats_db, upload, lastOp,
                   nCalls, data_db,
                   timer, global_users, queue>>

\* "self._stats_buffer.clear() # Clean up empty defaultdict entries" and
\* "return", after the test for an empty buffer
DropEmpty(t) ==
    /\ thread[t].pc = "drop"
    /\ stats_buffer' = NoBuffers
    /\ thread' = [x \in DOMAIN thread |->
          IF x = t THEN [thread[t] EXCEPT !.live = FALSE, !.pc = Returns(t)]
          ELSE [thread[x] EXCEPT !.live = FALSE]]
    /\ UNCHANGED <<is_flushing, sessions, events, summary, stats_db, upload, lastOp,
                   nCalls, data_db, timer, global_users, queue>>

\* "buffer_snapshot = {u: evs for u, evs in self._stats_buffer.items() if evs}"
TakeSnapshot(t) ==
    /\ thread[t].pc = "snapshot"
    /\ thread' = [thread EXCEPT ![t].pc = "clear", ![t].snap = stats_buffer,
                                ![t].live = TRUE]
    /\ UNCHANGED <<stats_buffer, is_flushing, sessions, events, summary, stats_db,
                   upload, lastOp, nCalls, data_db,
                   timer, global_users, queue>>

\* "self._stats_buffer.clear()" and "if not buffer_snapshot: return"
ClearBuffer(t) ==
    /\ thread[t].pc = "clear"
    /\ stats_buffer' = NoBuffers
    /\ thread' = [x \in Threads |->
          IF x = t
          THEN [thread[t] EXCEPT !.live = FALSE,
                   !.pc = IF thread[t].snap = NoBuffers THEN "finally" ELSE "process"]
          ELSE [thread[x] EXCEPT !.live = FALSE]]
    /\ UNCHANGED <<is_flushing, sessions, events, summary, stats_db, upload, lastOp,
                   nCalls, data_db,
                   timer, global_users, queue>>

\* "for username, raw_events in buffer_snapshot.items(): ..." without SQL
\* errors, the batches of the snapshot written to the stores and summaries.
\* The engine is made from the username on each pass: for a user whose
\* <username>_stats.db is not there SQLite opens an empty file, the first
\* "select(PlaySession)" of step 1 and the one of step 2 both raise, and
\* neither rows nor summary are written.
ProcessSnapshot(t) ==
    /\ thread[t].pc = "process"
    /\ sessions' = [u \in Users |->
          IF thread[t].snap[u] = <<>> \/ ~stats_db[u] THEN sessions[u]
          ELSE FlushUserSessions(sessions[u], thread[t].snap[u], 0)]
    /\ events' = [u \in Users |->
          IF thread[t].snap[u] = <<>> \/ ~stats_db[u] THEN events[u]
          ELSE FlushUserEvents(events[u], thread[t].snap[u], 0)]
    /\ summary' = [u \in Users |->
          IF thread[t].snap[u] = <<>> \/ ~stats_db[u] THEN summary[u]
          ELSE FlushUserSummary(summary[u], sessions[u], thread[t].snap[u], 0)]
    /\ thread' = [thread EXCEPT ![t].pc = "finally"]
    /\ UNCHANGED <<stats_buffer, is_flushing, stats_db, upload, lastOp, nCalls, data_db,
                   timer, global_users, queue>>

\* "finally: self._is_flushing = False"
ResetFlushing(t) ==
    /\ thread[t].pc = "finally"
    /\ is_flushing' = FALSE
    /\ thread' = [thread EXCEPT ![t].pc = Returns(t)]
    /\ lastOp' = IF t = "request" THEN lastOp ELSE Op("flush_stats", "", NoEntry, NoFail)
    /\ UNCHANGED <<stats_buffer, sessions, events, summary, stats_db, upload, nCalls, data_db,
                   timer, global_users, queue>>

\* "return self._get_summary_no_flush(username)"
ReadSummary(t) ==
    /\ thread[t].pc = "read"
    /\ thread' = [thread EXCEPT ![t].pc = "returned", ![t].result = summary[ReadUser]]
    /\ lastOp' = Op("get_stats_summary", ReadUser, NoEntry, NoFail)
    /\ UNCHANGED <<stats_buffer, is_flushing, sessions, events, summary, stats_db,
                   upload, nCalls, data_db,
                   timer, global_users, queue>>

\* POST /stats/track of ReadUser, served by another worker thread; the call
\* as a whole is one step (list.append).  A snapshot holds the list objects
\* of the buffer, so while they are still in the dict the report shows in the
\* snapshot too.
TrackStats ==
    /\ nCalls < MaxConcAppends
    /\ Accepts(ConcReport)
    /\ stats_buffer' = [stats_buffer EXCEPT ![ReadUser] = Append(@, ConcReport)]
    /\ thread' = [t \in Threads |->
          IF thread[t].live /\ thread[t].snap[ReadUser] # <<>>
          THEN [thread[t] EXCEPT !.snap[ReadUser] = Append(@, ConcReport)]
          ELSE thread[t]]
    /\ lastOp' = Op("append_stats", ReadUser, ConcReport, NoFail)
    /\ nCalls' = nCalls + 1
    /\ UNCHANGED <<is_flushing, sessions, events, summary, stats_db, upload, data_db,
                   timer, global_users, queue>>

NextConc ==
    \/ TrackStats
    \/ \E t \in Threads : BeginCall(t)
    \/ \E t \in Threads : CheckFlushing(t)
    \/ \E t \in Threads : SetFlushing(t)
    \/ \E t \in Threads : DropEmpty(t)
    \/ \E t \in Threads : TakeSnapshot(t)
    \/ \E t \in Threads : ClearBuffer(t)
    \/ \E t \in Threads : ProcessSnapshot(t)
    \/ \E t \in Threads : ResetFlushing(t)
    \/ ReadSummary("request")

SpecConc == Init /\ [][NextConc]_vars

----------------------------------------------------------------------------
(* Claims on the stats-snapshot merge (SpecMerge) *)

UploadStep == lastOp'.op = "upload_stats_db"
MergeUser == "u1"

\* C1: the stats merge never deletes or modifies a local row: every
\* PlaySession and PlayEvent row of the server store before the upload is in
\* the store after it, under the same id, with every field unchanged.
C1_MergeKeepsLocalRows ==
    [][UploadStep =>
        /\ \A id \in DOMAIN sessions[MergeUser] :
              /\ id \in DOMAIN sessions'[MergeUser]
              /\ sessions'[MergeUser][id] = sessions[MergeUser][id]
        /\ Len(events'[MergeUser]) >= Len(events[MergeUser])
        /\ \A i \in 1..Len(events[MergeUser]) :
              events'[MergeUser][i] = events[MergeUser][i]]_vars

\* C1 witness: after a merge the store holds a local session and a local
\* event whose foreign namesakes differ from them, and a row that came from
\* the snapshot.
C1_Witness ==
    /\ lastOp.op = "upload_stats_db" /\ lastOp.status = 500
    /\ "s1" \in DOMAIN sessions[MergeUser] /\ "s1" \in DOMAIN upload.sessions
    /\ sessions[MergeUser]["s1"] = LocalSessionRow
    /\ upload.sessions["s1"] # LocalSessionRow
    /\ Len(events[MergeUser]) = 2 /\ Len(upload.events) = 2
    /\ events[MergeUser][1].session_id = "s1"
    /\ upload.events[1].session_id = "s2"
    /\ upload.events[1].timestamp = events[MergeUser][1].timestamp
    /\ upload.events[1].song_filename = events[MergeUser][1].song_filename
    /\ events[MergeUser][2] = upload.events[2]

RowKey(row) == <<row.timestamp, row.song_filename>>
KeyCount(rows, k) == Cardinality({i \in 1..Len(rows) : RowKey(rows[i]) = k})
FirstWithKey(rows, i) == \A j \in 1..(i - 1) : RowKey(rows[j]) # RowKey(rows[i])

\* C2: in a merge onto an existing store a foreign event is inserted iff no
\* row then in the server store has its (timestamp, song_filename): a key
\* held by a local row keeps its number of rows whatever the other fields of
\* the foreign event, and a key new to the store gets exactly one row, the
\* first foreign event that carries it.
C2_MergeDedupByKey ==
    [][(UploadStep /\ stats_db[MergeUser]) =>
        LET old == events[MergeUser]
            new == events'[MergeUser]
            F   == upload.events
            inserted == SubSeq(new, Len(old) + 1, Len(new))
        IN  /\ \A i \in 1..Len(F) :
                 LET k == RowKey(F[i])
                 IN  IF KeyCount(old, k) > 0
                     THEN KeyCount(new, k) = KeyCount(old, k)
                     ELSE /\ KeyCount(new, k) = 1
                          /\ FirstWithKey(F, i) =>
                                \E n \in 1..Len(inserted) : inserted[n] = F[i]
            /\ \A n \in 1..Len(inserted) :
                 \E i \in 1..Len(F) : inserted[n] = F[i] /\ KeyCount(old, RowKey(F[i])) = 0]_vars

\* C2 witness: a merge has run on a store whose first row shares its key
\* with a foreign event that differs in session, type and durations; the
\* store still has one row of that key, and a foreign event of a new key was
\* inserted.
C2_Witness ==
    /\ lastOp.op = "upload_stats_db" /\ lastOp.status = 500
    /\ Len(upload.events) = 2 /\ Len(events[MergeUser]) = 2
    /\ RowKey(upload.events[1]) = RowKey(events[MergeUser][1])
    /\ upload.events[1] # events[MergeUser][1]
    /\ KeyCount(events[MergeUser], RowKey(upload.events[1])) = 1
    /\ events[MergeUser][2] = upload.events[2]
    /\ RowKey(upload.events[2]) # RowKey(upload.events[1])

----------------------------------------------------------------------------
(* Claims on ingestion (Spec) *)

AppendStep == lastOp'.op = "append_stats" /\ nCalls' = nCalls + 1

\* C9: append_stats rejects every report with duration_played <= 0 whose
\* event_type is not 'favorite' (no buffer changes); every other report,
\* a zero-duration favorite included, is appended once to the caller's
\* buffer and to no other.
C9_AppendRejectsNonPositive ==
    [][AppendStep =>
        LET r == lastOp'.arg
            u == lastOp'.user
        IN  IF r.duration_played <= 0 /\ r.event_type # "favorite"
            THEN stats_buffer' = stats_buffer
            ELSE /\ stats_buffer'[u] = stats_buffer[u] \o <<r>>
                 /\ \A v \in Users \ {u} : stats_buffer'[v] = stats_buffer[v]]_vars

\* C9 witness: the last call was a rejected report (duration 0, type
\* listen) of a user whose buffer holds an accepted zero-duration favorite.
C9_Witness ==
    /\ lastOp.op = "append_stats"
    /\ lastOp.arg.duration_played = 0 /\ lastOp.arg.event_type = "listen"
    /\ Len(stats_buffer[lastOp.user]) = 1
    /\ stats_buffer[lastOp.user][1].event_type = "favorite"
    /\ stats_buffer[lastOp.user][1].duration_played = 0

\* C10: append_stats changes no store and no summary of any user; an
\* accepted report makes the caller's buffer one entry longer and leaves the
\* other buffers alone; a summary changes only in a step that runs a flush
\* cycle.
C10_AppendTouchesOnlyBuffer ==
    [][/\ AppendStep =>
            /\ sessions' = sessions /\ events' = events /\ summary' = summary
            /\ \A v \in Users \ {lastOp'.user} : stats_buffer'[v] = stats_buffer[v]
            /\ Len(stats_buffer'[lastOp'.user]) \in
                  {Len(stats_buffer[lastOp'.user]), Len(stats_buffer[lastOp'.user]) + 1}
            /\ (lastOp'.arg.duration_played > 0 =>
                  Len(stats_buffer'[lastOp'.user]) = Len(stats_buffer[lastOp'.user]) + 1)
       /\ summary' # summary => lastOp'.op \in {"flush_stats", "get_stats_summary"}]_vars

\* C10 witness: a report was just accepted for a user whose summary already
\* shows play time of an earlier flush; the new report waits in the buffer.
C10_Witness ==
    /\ lastOp.op = "append_stats" /\ lastOp.arg.duration_played > 0
    /\ stats_buffer[lastOp.user] = <<lastOp.arg>>
    /\ summary[lastOp.user].total_play_time = 120000
    /\ Len(events[lastOp.user]) = 1

----------------------------------------------------------------------------
(* Claims on the summary against the rebuild (SpecLive, SpecRebuild) *)

SummaryCore(sm) == [sm EXCEPT !.shuffle_state.config = EmptyConfig]

\* C3: after any sequence of append_stats and failure-free flush_stats calls
\* from a new user's empty store and zero summary, the summary without
\* shuffle_state.config equals what rebuild_user_stats computes from the
\* store.
C3_SummaryEqualsRebuild ==
    \A u \in Users :
        SummaryCore(summary[u]) =
            SummaryCore(RebuildSummary(RebuildEvents(events[u]), sessions[u], summary[u]))

\* C4: rebuild is idempotent: a run of rebuild_user_stats that follows
\* another on the same store leaves the summary (counters and shuffle
\* history) and the stored rows (their event_types) as the first run left
\* them.
C4_RebuildIdempotent ==
    [][(lastOp.op = "rebuild_user_stats" /\ lastOp'.op = "rebuild_user_stats"
        /\ nCalls' = nCalls + 1)
        => summary' = summary /\ events' = events]_vars

\* C4 witness: two rebuilds have run on a store with a skip that the first
\* one reclassified; the summary counts plays, the history is cut to the
\* configured limit of 1 and the old config is still there.
C4_Witness ==
    /\ nCalls = 2 /\ lastOp.op = "rebuild_user_stats"
    /\ Len(events[LiveUser]) = 2
    /\ events[LiveUser][1].event_type = "complete"
    /\ events[LiveUser][1].duration_played = 95000
    /\ events[LiveUser][2].event_type = "skip"
    /\ summary[LiveUser].total_songs_played = 2
    /\ summary[LiveUser].shuffle_state.config = LimitConfig(1)
    /\ Len(summary[LiveUser].shuffle_state.history) = 1

----------------------------------------------------------------------------
(* Claims on coalescing and classification (SpecCoalesce, SpecClassify) *)

\* the batch in timestamp order, reports of equal timestamp in arrival order
RankIn(b, i) ==
    Cardinality({j \in 1..Len(b) :
        b[j].timestamp < b[i].timestamp \/ (b[j].timestamp = b[i].timestamp /\ j <= i)})
InTimeOrder(b) == [p \in 1..Len(b) |-> b[CHOOSE i \in 1..Len(b) : RankIn(b, i) = p]]

\* maximal runs of consecutive reports of one (session_id, song_filename)
RunStart(S, p) ==
    \/ p = 1
    \/ S[p].session_id # S[p - 1].session_id
    \/ S[p].song_filename # S[p - 1].song_filename
RunStarts(S) == {p \in 1..Len(S) : RunStart(S, p)}
RunEnd(S, p) ==
    CHOOSE e \in p..Len(S) :
        /\ \A q \in (p + 1)..e : ~RunStart(S, q)
        /\ e = Len(S) \/ RunStart(S, e + 1)
NthRun(S, k) ==
    CHOOSE p \in RunStarts(S) : Cardinality({q \in RunStarts(S) : q <= p}) = k

RECURSIVE SumSeq(_)
SumSeq(q) == IF q = <<>> THEN 0 ELSE Head(q) + SumSeq(Tail(q))

RunPlayed(S, p) == SumSeq([i \in 1..(RunEnd(S, p) - p + 1) |-> S[p + i - 1].duration_played])
RunForeground(S, p) ==
    SumSeq([i \in 1..(RunEnd(S, p) - p + 1) |->
        IF S[p + i - 1].foreground_duration = Unknown THEN 0
        ELSE S[p + i - 1].foreground_duration])
RunBackground(S, p) ==
    SumSeq([i \in 1..(RunEnd(S, p) - p + 1) |->
        IF S[p + i - 1].background_duration = Unknown THEN 0
        ELSE S[p + i - 1].background_duration])

NearestCentisecond(x) ==
    CHOOSE y \in {10 * (x \div 10), 10 * (x \div 10) + 10} :
        /\ 2 * (IF y > x THEN y - x ELSE x - y) <= 10
        /\ (2 * (IF y > x THEN y - x ELSE x - y) = 10 => (y \div 10) % 2 = 0)

FlushStepOf(u) ==
    /\ lastOp'.op = "flush_stats" /\ lastOp'.fail = NoFail
    /\ stats_buffer[u] # <<>>

\* the rows a flush adds for the runs of u's batch.  asWritten: the sums
\* and the timestamp are compared after rounding to 2 decimals, and a run of
\* one report keeps an absent foreground/background duration absent;
\* otherwise they are compared as the claim words them.  withWindow: the
\* tail-completion rule is the one of the amended C7.
RunRowOk(S, p, row, asWritten) ==
    LET e == RunEnd(S, p)
        played == RunPlayed(S, p)
        fgSum == RunForeground(S, p)
        bgSum == RunBackground(S, p)
    IN  /\ row.session_id = S[p].session_id
        /\ row.song_filename = S[p].song_filename
        /\ row.duration_played = IF asWritten THEN NearestCentisecond(played) ELSE played
        /\ row.foreground_duration =
              IF asWritten
              THEN (IF p = e /\ S[p].foreground_duration = Unknown THEN Unknown
                    ELSE NearestCentisecond(fgSum))
              ELSE fgSum
        /\ row.background_duration =
              IF asWritten
              THEN (IF p = e /\ S[p].background_duration = Unknown THEN Unknown
                    ELSE NearestCentisecond(bgSum))
              ELSE bgSum
        /\ row.timestamp =
              IF asWritten THEN NearestCentisecond(S[e].timestamp) ELSE S[e].timestamp
        /\ row.event_type =
              IF S[p].total_length > 0 /\ S[p].total_length - played <= 10000
              THEN "complete" ELSE S[e].event_type

\* the session row a flush creates takes the platform of the last report of
\* the first run of that session
RunPlatformOk(S, k, u) ==
    LET p == NthRun(S, k)
        sid == S[p].session_id
    IN  (sid \notin DOMAIN sessions[u] /\ \A q \in 1..(p - 1) : S[q].session_id # sid)
        => /\ sid \in DOMAIN sessions'[u]
           /\ sessions'[u][sid].platform =
                 (IF S[RunEnd(S, p)].platform = "" THEN "unknown"
                  ELSE S[RunEnd(S, p)].platform)

RunsStored(u, asWritten) ==
    LET S == InTimeOrder(stats_buffer[u])
        n == Cardinality(RunStarts(S))
    IN  /\ Len(events'[u]) = Len(events[u]) + n
        /\ \A k \in 1..n :
              /\ RunRowOk(S, NthRun(S, k), events'[u][Len(events[u]) + k], asWritten)
              /\ RunPlatformOk(S, k, u)

\* C6 as claimed: each maximal run of the batch in timestamp order is stored
\* as one event whose duration_played, foreground and background durations
\* are the run's sums (absent counted as 0) and whose event_type (before
\* classification), timestamp and platform are the last report's.
C6_RunsStoredAsClaimed ==
    [][FlushStepOf(LiveUser) => RunsStored(LiveUser, FALSE)]_vars

\* C6 amended: as C6, with the sums and the timestamp rounded to 2 decimals
\* when the event is written, and with an absent foreground/background
\* duration of a run of a single report stored as absent, not 0.
C6_RunsStoredRounded ==
    [][FlushStepOf(LiveUser) => RunsStored(LiveUser, TRUE)]_vars

\* C6 witness: the heartbeats of 15 and 20.004 s (the last one complete, at
\* 3.004 s) were flushed together with an earlier report of another song:
\* two rows, the second the run stored as one complete event of 35 s at 3 s
\* with 2 s of background time.
C6_Witness ==
    /\ lastOp.op = "flush_stats"
    /\ Len(events[LiveUser]) = 2
    /\ events[LiveUser][1].song_filename = SongB
    /\ events[LiveUser][2].song_filename = SongA
    /\ events[LiveUser][2].duration_played = 35000
    /\ events[LiveUser][2].event_type = "complete"
    /\ events[LiveUser][2].timestamp = 3000
    /\ events[LiveUser][2].background_duration = 2000

\* the classification of the rows a flush adds: the run's total against the
\* total_length of its first report.  guarded: only when total_length > 0.
RunsClassified(u, guarded) ==
    LET S == InTimeOrder(stats_buffer[u])
        n == Cardinality(RunStarts(S))
    IN  /\ Len(events'[u]) = Len(events[u]) + n
        /\ \A k \in 1..n :
              LET p == NthRun(S, k)
                  row == events'[u][Len(events[u]) + k]
                  inWindow == S[p].total_length - RunPlayed(S, p) <= 10000
              IN  row.event_type =
                     IF inWindow /\ (guarded => S[p].total_length > 0)
                     THEN "complete" ELSE S[RunEnd(S, p)].event_type

\* C7 as claimed: for every reported event_type and every total_length the
\* stored event_type is 'complete' if total_length - duration_played <= 10.0
\* and the reported type otherwise.
C7_TailCompletionAnyLength ==
    [][FlushStepOf(LiveUser) => RunsClassified(LiveUser, FALSE)]_vars

\* C7 amended: the stored event_type is 'complete' if total_length > 0 and
\* total_length - duration_played <= 10.0, and the reported type otherwise
\* (an event of unknown length, total_length 0, keeps its reported type).
C7_TailCompletionKnownLength ==
    [][FlushStepOf(LiveUser) => RunsClassified(LiveUser, TRUE)]_vars

\* C7 witness: a skip with exactly 10 s remaining stored as complete, after a
\* skip with 10.1 s remaining stored as skip.
C7_Witness ==
    /\ lastOp.op = "flush_stats"
    /\ Len(events[LiveUser]) = 2
    /\ events[LiveUser][1].duration_played = 89900
    /\ events[LiveUser][1].event_type = "skip"
    /\ events[LiveUser][2].duration_played = 90000
    /\ events[LiveUser][2].total_length = 100000
    /\ events[LiveUser][2].event_type = "complete"

----------------------------------------------------------------------------
(* Claims on the shuffle history (SpecShuffle) *)

\* C8: in every reachable summary, after any sequence of flushes,
\* update_shuffle_state calls and final_stats merges, the shuffle history
\* has at most history_limit entries (default 50) and at most one entry per
\* filename.
C8_HistoryWithinLimit ==
    \A u \in Users :
        LET h == summary[u].shuffle_state.history
            limit == IF "history_limit" \in DOMAIN summary[u].shuffle_state.config
                     THEN summary[u].shuffle_state.config["history_limit"]
                     ELSE 50
        IN  /\ Len(h) <= limit
            /\ \A i, j \in 1..Len(h) : i # j => h[i].filename # h[j].filename

----------------------------------------------------------------------------
(* Claims on reads under concurrency (SpecConc) *)

\* C5: read-your-writes under every interleaving: the summary returned by
\* get_stats_summary(u) includes the play time of every report of u that
\* append_stats accepted before the call began, and the song of the last one
\* heads the history.
C5_ReadYourWrites ==
    thread["request"].pc = "returned" =>
        /\ thread["request"].result.total_play_time >= thread["request"].owed
        /\ (thread["request"].owed > 0 =>
              /\ thread["request"].result.shuffle_state.history # <<>>
              /\ thread["request"].result.shuffle_state.history[1].filename
                    = ConcReport.song_filename)

----------------------------------------------------------------------------
(* Claims on refused uploads (SpecUpload) *)

\* C11: an upload of db_type 'data', or of an unknown db_type, is rejected
\* with an error and has no partial effect: the data store, the stats store
\* and the summary of every user are the same after the request as before.
C11_RejectedUploadNoEffect ==
    [][(lastOp'.op = "upload_rejected" /\ nCalls' = nCalls + 1) =>
          /\ lastOp'.status = 400
          /\ data_db' = data_db
          /\ sessions' = sessions /\ events' = events /\ stats_db' = stats_db
          /\ summary' = summary
          /\ stats_buffer' = stats_buffer]_vars

\* C11 witness: an upload was just refused for a user who has a favorite, a
\* stored event and a summary with play time, while the client holds a
\* snapshot with other rows.
C11_Witness ==
    /\ lastOp.op = "upload_rejected" /\ lastOp.status = 400
    /\ data_db[LiveUser] = {SongA}
    /\ Len(events[LiveUser]) = 1
    /\ summary[LiveUser].total_play_time = 7000
    /\ upload.events # <<>> /\ upload.events # events[LiveUser]

----------------------------------------------------------------------------
(* Claims on the shuffle config (SpecConfig) *)

ConfigOf(sm) == sm.shuffle_state.config

\* C12: neither flush_stats nor rebuild_user_stats changes
\* shuffle_state.config (no key added, removed or altered); the config of a
\* user changes only in an update_shuffle_state call or a final_stats merge.
C12_ConfigOnlySetByUser ==
    [][\A u \in Users :
          /\ (lastOp'.op \in {"flush_stats", "rebuild_user_stats"}
                => ConfigOf(summary'[u]) = ConfigOf(summary[u]))
          /\ (ConfigOf(summary'[u]) # ConfigOf(summary[u])
                => lastOp'.op \in {"update_shuffle_state", "upload_final_stats"}
                   /\ lastOp'.user = u)]_vars

\* C12 witness: a rebuild has just rewritten the summary of a user whose
\* config holds history_limit 1, after a flush that stored a play.
C12_Witness ==
    /\ lastOp.op = "rebuild_user_stats"
    /\ ConfigOf(summary[LiveUser]) = LimitConfig(1)
    /\ Len(events[LiveUser]) = 1
    /\ summary[LiveUser].total_play_time = 120000
    /\ Len(summary[LiveUser].shuffle_state.history) = 1

\* C13: a final_stats merge leaves every summary field other than
\* shuffle_state exactly as it was on the server, whatever the uploaded
\* summary carries for them.
C13_FinalMergeKeepsCounters ==
    [][(lastOp'.op = "upload_final_stats" /\ nCalls' = nCalls + 1) =>
          \A u \in Users :
             [summary'[u] EXCEPT !.shuffle_state = summary[u].shuffle_state] = summary[u]]_vars

\* C13 witness: a final_stats upload carrying total_play_time 999 s has just
\* been merged into a summary that counts one play of 120 s; the merge added
\* the uploaded history entry and the counters are those of the server.
C13_Witness ==
    /\ lastOp.op = "upload_final_stats"
    /\ summary[LiveUser].total_play_time = 120000
    /\ summary[LiveUser].total_songs_played = 1
    /\ Len(summary[LiveUser].shuffle_state.history) = 2
    /\ \E i \in 1..2 : summary[LiveUser].shuffle_state.history[i].filename = SongC

----------------------------------------------------------------------------
(* Claims on concurrent flush cycles (SpecConc) *)

\* positions between "self._is_flushing = True" and "self._is_flushing = False"
InCycle(t) == thread[t].pc \in {"snapshot", "clear", "process", "finally"}

\* C14: at most one flush cycle runs at a time: under every interleaving of
\* concurrent flush_stats calls no two calls are at once between setting
\* _is_flushing to True and resetting it to False.
C14_OneCycleAtATime ==
    Cardinality({t \in Threads : InCycle(t)}) <= 1

PlayTimeOf(rows) == SumSeq([i \in 1..Len(rows) |-> rows[i].duration_played])

\* C15: every accepted report is picked up by exactly one flush cycle: under
\* any interleaving the play time stored for a user never exceeds the play
\* time of the reports accepted for that user (none is stored twice), and
\* whenever no cycle is running the stored and the still buffered play time
\* add up to the accepted play time (none is lost).
C15_PickedUpExactlyOnce ==
    LET accepted == nCalls * ConcReport.duration_played
        stored == PlayTimeOf(events[ReadUser])
        waiting == PlayTimeOf(stats_buffer[ReadUser])
    IN  /\ stored <= accepted
        /\ summary[ReadUser].total_play_time <= accepted
        /\ ((\A t \in Threads : thread[t].pc \notin {"any", "snapshot", "clear", "process"})
              => stored + waiting = accepted)

----------------------------------------------------------------------------
(* Claims on storage failures during a flush (Spec) *)

\* a flush cycle (flush_stats, or the flush of a summary read) in which the
\* SQL write of user a fails and that of user b does not
FailingCycle(a, b) ==
    /\ lastOp'.op \in {"flush_stats", "get_stats_summary"}
    /\ ~is_flushing
    /\ stats_buffer[a] # <<>> /\ lastOp'.fail[a] # 0
    /\ stats_buffer[b] # <<>> /\ lastOp'.fail[b] = 0

\* C16: in one flush cycle a storage failure while writing user A's batch
\* does not stop the cycle: every other user B with a non-empty batch has
\* all of B's events persisted (one row per run of the batch, with the whole
\* play time) and B's summary updated.
C16_FailureIsolatedPerUser ==
    [][\A a, b \in Users :
          FailingCycle(a, b) =>
             LET S == InTimeOrder(stats_buffer[b])
                 added == SubSeq(events'[b], Len(events[b]) + 1, Len(events'[b]))
             IN  /\ Len(added) = Cardinality(RunStarts(S))
                 /\ SubSeq(events'[b], 1, Len(events[b])) = events[b]
                 /\ PlayTimeOf(added) = PlayTimeOf(stats_buffer[b])
                 /\ summary'[b].total_play_time =
                       summary[b].total_play_time + PlayTimeOf(stats_buffer[b])
                 /\ stats_buffer'[b] = <<>>]_vars

\* C16 witness: a cycle in which u1's write failed has stored u2's play of
\* 120 s and counted it in u2's summary.
C16_Witness ==
    /\ lastOp.op = "flush_stats"
    /\ lastOp.fail["u1"] = 1 /\ lastOp.fail["u2"] = 0
    /\ nCalls = 2
    /\ events["u1"] = <<>>
    /\ Len(events["u2"]) = 1 /\ events["u2"][1].duration_played = 120000
    /\ summary["u2"].total_play_time = 120000
    /\ Len(summary["u2"].shuffle_state.history) = 1

\* C17: when the store write fails for a user during a flush cycle, that
\* user's whole batch is dropped: none of its events is persisted, none is
\* added to the summary counters or the shuffle history, and none is put back
\* in the buffer.
C17_FailedBatchDropped ==
    [][\A a \in Users :
          (/\ lastOp'.op \in {"flush_stats", "get_stats_summary"}
           /\ ~is_flushing /\ stats_buffer[a] # <<>> /\ lastOp'.fail[a] # 0)
          => /\ events'[a] = events[a]
             /\ summary'[a] = summary[a]
             /\ stats_buffer'[a] = <<>>]_vars

----------------------------------------------------------------------------
(* Claims on the session counters (SpecLive) *)

UsageOf(usage, p) == IF p \in DOMAIN usage THEN usage[p] ELSE 0

\* the session ids of a batch that have no PlaySession row yet
NewSessions(u) ==
    {stats_buffer[u][i].session_id : i \in 1..Len(stats_buffer[u])} \ DOMAIN sessions[u]

\* C18: when a flush processes events of a session_id that had no
\* PlaySession row before that flush, total_sessions increases by exactly 1
\* and platform_usage[platform] by exactly 1 for that session; events of a
\* session already in the store change neither.
C18_NewSessionCountedOnce ==
    [][\A u \in Users :
          (lastOp'.op = "flush_stats" /\ ~is_flushing /\ stats_buffer[u] # <<>>) =>
             /\ summary'[u].total_sessions =
                   summary[u].total_sessions + Cardinality(NewSessions(u))
             /\ \A p \in {"ios", "android", "unknown"} :
                   UsageOf(summary'[u].platform_usage, p) =
                      UsageOf(summary[u].platform_usage, p)
                      + Cardinality({sid \in NewSessions(u) : sessions'[u][sid].platform = p})]_vars

----------------------------------------------------------------------------
(* SpecStore: a stored history that is flushed into, merged into and rebuilt *)

MaxStoreCalls == 2
MaxStoreEvents == 1

\* rows in the store: a skip inside the 10 s tail, a skip outside it, a listen
StoreRows ==
    { Row("s1", SongA, "skip", 1000, 95000, 100000, 95, Unknown, Unknown),
      Row("s2", SongB, "skip", 2000, 10000, 100000, 10, Unknown, Unknown),
      Row("s2", SongC, "listen", 1500, 10000, 100000, 10, 4000, 6000) }

StoreSessionTables ==
    { NoSessions,
      ("s1" :> LocalSessionRow)
         @@ ("s2" :> [start_time |-> 1500, end_time |-> 2000, platform |-> "unknown"]) }

\* reports that widen s1 downwards and s2 upwards, and name s2's platform
StorePool ==
    { Entry("s1", SongB, 50000, 200000, "listen", 400, "ios", Unknown, Unknown),
      Entry("s2", SongB, 195000, 200000, "skip", 4000, "android", Unknown, Unknown) }

\* the uploaded snapshot: a session and a skip of its own, a session id and
\* an event key that the store may hold already
ForeignStoreRows ==
    << Row("s3", SongC, "skip", 5000, 97000, 100000, 97, Unknown, Unknown),
       Row("s3", SongA, "complete", 1000, 99000, 100000, 99, 99000, 0) >>

ForeignStoreSessions ==
    { ("s3" :> ForeignSessionRow), ("s1" :> ForeignSessionRow) @@ ("s3" :> ForeignSessionRow) }

InitStore ==
    /\ stats_buffer = [u \in Users |-> <<>>]
    /\ is_flushing = FALSE
    /\ summary = [u \in Users |-> NewSummary]
    /\ stats_db = [u \in Users |-> TRUE]
    /\ \E ls \in StoreSessionTables, le \in SeqsUpTo(StoreRows, MaxStoreEvents) :
          /\ sessions = [u \in Users |-> IF u = LiveUser THEN ls ELSE NoSessions]
          /\ events = [u \in Users |-> IF u = LiveUser THEN le ELSE <<>>]
    /\ \E fs \in ForeignStoreSessions, k \in 0..2 :
          upload = [sessions |-> fs, events |-> SubSeq(ForeignStoreRows, 1, k)]
    /\ lastOp = Op("create_user", "", NoEntry, NoFail)
    /\ nCalls = 0
    /\ thread = IdleThreads
    /\ data_db = [u \in Users |-> {}]
    /\ timer = StartTimer
    /\ global_users = Users
    /\ queue = NoQueues

NextStore ==
    \/ \E r \in StorePool : nCalls < MaxStoreCalls /\ AppendStats(LiveUser, r)
    \/ \E fail \in FailSet : FlushStats(fail)
    \/ UploadStatsDb(LiveUser, upload)
    \/ nCalls < MaxStoreCalls /\ Rebuild(LiveUser)

SpecStore == InitStore /\ [][NextStore]_vars

----------------------------------------------------------------------------
(* Claims on the rows of the store (SpecStore) *)

\* a session row after a step: still there, its interval not narrowed, its
\* platform changed only from "unknown"
SessionWidened(old, new) ==
    /\ new.start_time <= old.start_time
    /\ new.end_time >= old.end_time
    /\ (new.platform = old.platform \/ old.platform = "unknown")

\* an event row after a step: every field but event_type as it was
EventKept(old, new) == [new EXCEPT !.event_type = old.event_type] = old

\* C19: flush_stats, the stats merge and rebuild_user_stats never delete a
\* PlayEvent or PlaySession row; an existing session row is only widened in
\* start_time/end_time/platform and an existing event row only changes its
\* event_type, every other field of every existing row is left unchanged.
C19_StoreRowsKept ==
    [][lastOp'.op \in {"flush_stats", "upload_stats_db", "rebuild_user_stats"} =>
          \A u \in Users :
             /\ DOMAIN sessions[u] \subseteq DOMAIN sessions'[u]
             /\ \A id \in DOMAIN sessions[u] :
                   SessionWidened(sessions[u][id], sessions'[u][id])
             /\ Len(events'[u]) >= Len(events[u])
             /\ \A i \in 1..Len(events[u]) :
                   EventKept(events[u][i], events'[u][i])]_vars

\* a stored session was widened by a flush, an uploaded skip was merged in
\* and then reclassified by a rebuild
C19_Witness ==
    /\ lastOp.op = "rebuild_user_stats"
    /\ "s1" \in DOMAIN sessions[LiveUser]
    /\ sessions[LiveUser]["s1"].start_time = 400
    /\ sessions[LiveUser]["s1"].end_time >= 2000
    /\ \E i \in 1..Len(events[LiveUser]) :
          /\ events[LiveUser][i].session_id = "s3"
          /\ events[LiveUser][i].duration_played = 97000
          /\ events[LiveUser][i].event_type = "complete"
    /\ Len(events[LiveUser]) >= 3

----------------------------------------------------------------------------
(* Claims on repeated merges (SpecMerge) *)

\* C20: merging the same foreign stats snapshot twice is the same as merging
\* it once: merged again into the store an upload has produced, the snapshot
\* inserts no session and no event, and an upload that follows an upload of
\* the same snapshot leaves the store as it is, also when the snapshot holds
\* several events sharing one (timestamp, song_filename).
C20_MergeTwiceIsOnce ==
    [][UploadStep =>
          /\ MergeSessions(sessions'[MergeUser], upload.sessions) = sessions'[MergeUser]
          /\ MergeEvents(events'[MergeUser], upload.events) = events'[MergeUser]
          /\ (lastOp.op = "upload_stats_db" =>
                 sessions' = sessions /\ events' = events)]_vars

\* the snapshot, two events sharing a key, became the store of a user without
\* a file and was then merged into that store
C20_Witness ==
    /\ lastOp.op = "upload_stats_db" /\ lastOp.status = 500
    /\ sessions[MergeUser] = upload.sessions
    /\ "s1" \in DOMAIN sessions[MergeUser]
    /\ sessions[MergeUser]["s1"] = ForeignSessionRow
    /\ Len(upload.events) = 2
    /\ RowKey(upload.events[1]) = RowKey(upload.events[2])
    /\ upload.events[1] # upload.events[2]
    /\ events[MergeUser] = upload.events

----------------------------------------------------------------------------
(* SpecReclass: one triple (event_type, duration_played, total_length), as a
   stored row of u1 that is rebuilt and as a report of u2 that is flushed *)

MaxReclassCalls == 2

\* 195 s, 190 s, 189.99 s and 20 s of a 200 s track, 5 s of an 8 s track and
\* of a track of unknown length
ReclassTriples ==
    {<<et, d, 200000>> : et \in ClassifyTypes, d \in {195000, 190000, 189990, 20000}}
    \cup {<<et, 5000, tl>> : et \in ClassifyTypes, tl \in {8000, 0}}
    \cup {<<"favorite", 0, tl>> : tl \in {8000, 0}}

StoredUser == "u1"
ReportingUser == "u2"

TripleRow(t) ==
    Row("s1", SongA, t[1], 1000, t[2], t[3], RatioPct(t[2], t[3]), Unknown, Unknown)
TripleEntry(t) ==
    Entry("s1", SongA, t[2], t[3], t[1], 1000, "ios", Unknown, Unknown)
TripleOf(x) == <<x.event_type, x.duration_played, x.total_length>>

InitReclass ==
    /\ stats_buffer = [u \in Users |-> <<>>]
    /\ is_flushing = FALSE
    /\ summary = [u \in Users |-> NewSummary]
    /\ stats_db = [u \in Users |-> TRUE]
    /\ upload = NoUpload
    /\ sessions = [u \in Users |->
                      IF u = StoredUser THEN ("s1" :> LocalSessionRow) ELSE NoSessions]
    /\ \E t \in ReclassTriples :
          events = [u \in Users |-> IF u = StoredUser THEN <<TripleRow(t)>> ELSE <<>>]
    /\ lastOp = Op("create_user", "", NoEntry, NoFail)
    /\ nCalls = 0
    /\ thread = IdleThreads
    /\ data_db = [u \in Users |-> {}]
    /\ timer = StartTimer
    /\ global_users = Users
    /\ queue = NoQueues

\* the report carries the triple of the stored row and is sent before the
\* rebuild; the rebuild runs while the server is stopped, or not
NextReclass ==
    \/ /\ nCalls = 0
       /\ AppendStats(ReportingUser, TripleEntry(TripleOf(events[StoredUser][1])))
    \/ FlushStats(NoFail)
    \/ /\ nCalls >= 1 /\ nCalls < MaxReclassCalls
       /\ Rebuild(StoredUser)

SpecReclass == InitReclass /\ [][NextReclass]_vars

----------------------------------------------------------------------------
(* Claims on reclassification (SpecReclass) *)

\* C21: reclassification is one function of (event_type, duration_played,
\* total_length) shared by live flush and rebuild: the event_type that
\* rebuild_user_stats leaves on a stored row equals the event_type the live
\* flush has stored for a report with the same triple.
C21_SameReclassification ==
    (nCalls >= 2 /\ Len(events[ReportingUser]) = 1) =>
        events[ReportingUser][1].event_type = events[StoredUser][1].event_type

----------------------------------------------------------------------------
(* SpecCounters: reports on both sides of the 0.25 and 0.2 ratios *)

MaxCounterCalls == 3

\* a.mp3: 25 s of 100 s (ratio 0.25) and a heartbeat of 1.004 s; b.mp3
\* skipped at ratio 0.19 and at ratio 0.2; c.mp3: a skip 1 s into an 8 s
\* track and a skip of a track of unknown length; a favorite marker
CounterPool ==
    { Entry("s1", SongA, 25000, 100000, "listen", 1000, "ios", Unknown, Unknown),
      Entry("s1", SongA, 1004, 100000, "listen", 2000, "ios", Unknown, Unknown),
      Entry("s1", SongB, 19000, 100000, "skip", 1500, "ios", Unknown, Unknown),
      Entry("s1", SongB, 20000, 100000, "skip", 3000, "ios", Unknown, Unknown),
      Entry("s2", SongC, 1000, 8000, "skip", 2500, "ios", Unknown, Unknown),
      Entry("s2", SongC, 5000, 0, "skip", 4000, "ios", Unknown, Unknown),
      Entry("s2", SongA, 0, 0, "favorite", 3500, "ios", Unknown, Unknown) }

NextCounters ==
    \/ \E r \in CounterPool : nCalls < MaxCounterCalls /\ AppendStats(LiveUser, r)
    \/ FlushStats(NoFail)

SpecCounters == Init /\ [][NextCounters]_vars

----------------------------------------------------------------------------
(* Claims on the summary counters (SpecCounters) *)

\* the coalesced events of a batch: run k of the batch in time order, its
\* summed duration, the total_length it carries and its reconciled type
RunLength(S, k) == S[NthRun(S, k)].total_length
RunTotal(S, k) == RunPlayed(S, NthRun(S, k))
RunType(S, k) ==
    IF RunLength(S, k) > 0 /\ RunLength(S, k) - RunTotal(S, k) <= 10000
    THEN "complete" ELSE S[RunEnd(S, NthRun(S, k))].event_type
RunRatioOver(S, k, num, den) ==
    RunLength(S, k) > 0 /\ den * RunTotal(S, k) > num * RunLength(S, k)
RunRatioUnder(S, k, num, den) ==
    IF RunLength(S, k) > 0 THEN den * RunTotal(S, k) < num * RunLength(S, k) ELSE TRUE

\* total_play_time after the events k..n, each addition rounded to 2 decimals
RECURSIVE PlayTimeRounded(_, _, _, _)
PlayTimeRounded(t, S, k, n) ==
    IF k > n THEN t
    ELSE PlayTimeRounded(NearestCentisecond(t + RunTotal(S, k)), S, k + 1, n)

CountersAfterFlush(u, rounded) ==
    LET S == InTimeOrder(stats_buffer[u])
        n == Cardinality(RunStarts(S))
    IN  /\ summary'[u].total_play_time =
              IF rounded THEN PlayTimeRounded(summary[u].total_play_time, S, 1, n)
              ELSE summary[u].total_play_time
                      + SumSeq([k \in 1..n |-> RunTotal(S, k)])
        /\ summary'[u].total_songs_played =
              summary[u].total_songs_played
                 + Cardinality({k \in 1..n : RunRatioOver(S, k, 1, 4)})
        /\ summary'[u].total_skipped =
              summary[u].total_skipped
                 + Cardinality({k \in 1..n :
                                  RunType(S, k) = "skip" /\ RunRatioUnder(S, k, 1, 5)})

CountersKept(u) ==
    /\ summary'[u].total_play_time = summary[u].total_play_time
    /\ summary'[u].total_songs_played = summary[u].total_songs_played
    /\ summary'[u].total_skipped = summary[u].total_skipped

\* C22 as claimed: for each coalesced event processed by a flush,
\* total_play_time grows by its duration_played, total_songs_played by 1 iff
\* its ratio is > 0.25 (0 when total_length <= 0) and total_skipped by 1 iff
\* its reconciled event_type is 'skip' and the ratio is < 0.2; nothing else
\* changes these counters.
C22_CountersAsClaimed ==
    [][IF FlushStepOf(LiveUser) THEN CountersAfterFlush(LiveUser, FALSE)
       ELSE CountersKept(LiveUser)]_vars

\* C22 amended: as C22, with total_play_time after each coalesced event being
\* the sum of its value before and the event's duration_played, rounded to 2
\* decimals.
C22_CountersRounded ==
    [][IF FlushStepOf(LiveUser) THEN CountersAfterFlush(LiveUser, TRUE)
       ELSE CountersKept(LiveUser)]_vars

\* C22 witness: a.mp3 at ratio 0.25, b.mp3 skipped at ratio 0.19 and the
\* heartbeat of 1.004 s were flushed as three events: 45.0 s of play time,
\* no song played, one skip.
C22_Witness ==
    /\ lastOp.op = "flush_stats"
    /\ Len(events[LiveUser]) = 3
    /\ events[LiveUser][2].song_filename = SongB
    /\ events[LiveUser][3].duration_played = 1000
    /\ summary[LiveUser].total_play_time = 45000
    /\ summary[LiveUser].total_songs_played = 0
    /\ summary[LiveUser].total_skipped = 1

----------------------------------------------------------------------------
(* Claims on the two played-song counters (SpecClassify) *)

\* C23: after any sequence of flushes that starts from a zero summary,
\* total_songs_played equals total_songs_played_ratio_over_025, for every
\* mix of event types (listen, skip, complete, favorite).
C23_PlayedCountersEqual ==
    \A u \in Users :
        summary[u].total_songs_played = summary[u].total_songs_played_ratio_over_025

----------------------------------------------------------------------------
(* SpecHistory: flushes onto a shuffle history and a history_limit that
   update_shuffle_state has left *)

MaxHistoryCalls == 3

\* a.mp3 played to ratio 0.6 and, in another report, 2 s of 4 s; b.mp3
\* skipped after 6 s (ratio 0.06); c.mp3 skipped after 3 s and after exactly
\* 5 s (ratio 0.05)
HistoryPool ==
    { Entry("s1", SongA, 120000, 200000, "complete", 1000, "ios", Unknown, Unknown),
      Entry("s1", SongB, 6000, 100000, "skip", 2000, "ios", Unknown, Unknown),
      Entry("s1", SongC, 3000, 200000, "skip", 3000, "ios", Unknown, Unknown),
      Entry("s1", SongC, 5000, 100000, "skip", 3500, "ios", Unknown, Unknown),
      Entry("s2", SongA, 2000, 4000, "listen", 4000, "ios", Unknown, Unknown) }

HistoryConfigs == {EmptyConfig, LimitConfig(0), LimitConfig(1), LimitConfig(2)}

StoredHistories ==
    { <<>>,
      <<[filename |-> SongA, timestamp |-> 100], [filename |-> SongC, timestamp |-> 50]>>,
      <<[filename |-> SongB, timestamp |-> 300], [filename |-> SongA, timestamp |-> 100],
        [filename |-> SongC, timestamp |-> 50]>> }

InitHistory ==
    /\ stats_buffer = [u \in Users |-> <<>>]
    /\ is_flushing = FALSE
    /\ sessions = [u \in Users |-> NoSessions]
    /\ events = [u \in Users |-> <<>>]
    /\ \E c \in HistoryConfigs, h \in StoredHistories :
          summary = [u \in Users |->
                        IF u = LiveUser
                        THEN [NewSummary EXCEPT !.shuffle_state = [config |-> c, history |-> h]]
                        ELSE NewSummary]
    /\ stats_db = [u \in Users |-> TRUE]
    /\ upload = NoUpload
    /\ lastOp = Op("update_shuffle_state", LiveUser, NoEntry, NoFail)
    /\ nCalls = 0
    /\ thread = IdleThreads
    /\ data_db = [u \in Users |-> {}]
    /\ timer = StartTimer
    /\ global_users = Users
    /\ queue = NoQueues

NextHistory ==
    \/ \E r \in HistoryPool : nCalls < MaxHistoryCalls /\ AppendStats(LiveUser, r)
    \/ FlushStats(NoFail)

SpecHistory == InitHistory /\ [][NextHistory]_vars

----------------------------------------------------------------------------
(* Claims on the shuffle history written by a flush (SpecHistory) *)

RunEntry(S, k) ==
    [filename |-> S[NthRun(S, k)].song_filename,
     timestamp |-> S[RunEnd(S, NthRun(S, k))].timestamp]

RunEligible(S, k) == RunRatioOver(S, k, 1, 4) \/ RunTotal(S, k) > 5000

RECURSIVE KeepOthers(_, _)
KeepOthers(h, fn) ==
    IF h = <<>> THEN <<>>
    ELSE (IF Head(h).filename = fn THEN <<>> ELSE <<Head(h)>>) \o KeepOthers(Tail(h), fn)

FirstOf(h, n) == SubSeq(h, 1, IF n < Len(h) THEN (IF n > 0 THEN n ELSE 0) ELSE Len(h))

LimitOf(u) ==
    IF "history_limit" \in DOMAIN summary[u].shuffle_state.config
    THEN summary[u].shuffle_state.config["history_limit"] ELSE 50

\* the history after the events k..n of a batch.  headFirst: the event's
\* entry is history[0] and the entries behind it fill what the limit leaves;
\* otherwise the entry is put in front and the whole list is cut to the limit
RECURSIVE HistoryAfter(_, _, _, _, _, _)
HistoryAfter(h, S, k, n, limit, headFirst) ==
    IF k > n THEN h
    ELSE LET e == RunEntry(S, k)
             others == KeepOthers(h, e.filename)
             next == IF ~RunEligible(S, k) THEN h
                     ELSE IF headFirst THEN <<e>> \o FirstOf(others, limit - 1)
                     ELSE FirstOf(<<e>> \o others, limit)
         IN  HistoryAfter(next, S, k + 1, n, limit, headFirst)

\* N eligible plays of N distinct songs under a limit L < N leave exactly the
\* L most recently played songs, the latest first
MostRecentKept(u) ==
    LET S == InTimeOrder(stats_buffer[u])
        n == Cardinality(RunStarts(S))
        L == LimitOf(u)
        h == summary'[u].shuffle_state.history
    IN  (/\ \A k \in 1..n : RunEligible(S, k)
         /\ \A j, k \in 1..n : j # k => RunEntry(S, j).filename # RunEntry(S, k).filename
         /\ L < n)
        => /\ Len(h) = L
           /\ \A i \in 1..L : h[i] = RunEntry(S, n + 1 - i)

HistoryWritten(u, headFirst) ==
    LET S == InTimeOrder(stats_buffer[u])
        n == Cardinality(RunStarts(S))
    IN  /\ summary'[u].shuffle_state.history =
              HistoryAfter(summary[u].shuffle_state.history, S, 1, n, LimitOf(u), headFirst)
        /\ summary'[u].shuffle_state.config = summary[u].shuffle_state.config
        /\ MostRecentKept(u)

\* C24 as claimed: a flushed event updates the history iff its ratio is
\* > 0.25 or its duration_played > 5.0; after the update its filename is
\* history[0] with the event's timestamp, any earlier entry of that filename
\* is gone and the other entries keep their relative order; an event meeting
\* neither condition leaves the history unchanged; N eligible plays of N
\* distinct songs under a limit L < N leave the L most recent songs.
C24_HistoryHeadFirst ==
    [][FlushStepOf(LiveUser) => HistoryWritten(LiveUser, TRUE)]_vars

\* C24 amended: as C24, but the entry is put in front and the list is then
\* cut to its first history_limit entries, so the event's filename is
\* history[0] only under a history_limit of at least 1; under a limit of 0
\* the history is empty after the update.
C24_HistoryCutToLimit ==
    [][FlushStepOf(LiveUser) => HistoryWritten(LiveUser, FALSE)]_vars

\* C24 witness: under a limit of 2 and onto the history b, a, c the flush of
\* a play of a.mp3, a 3 s skip of c.mp3 and a 6 s skip of b.mp3 left b, a.
C24_Witness ==
    /\ lastOp.op = "flush_stats"
    /\ Len(events[LiveUser]) = 3
    /\ events[LiveUser][3].song_filename = SongC
    /\ events[LiveUser][3].duration_played = 3000
    /\ summary[LiveUser].shuffle_state.config = LimitConfig(2)
    /\ summary[LiveUser].shuffle_state.history =
          <<[filename |-> SongB, timestamp |-> 2000], [filename |-> SongA, timestamp |-> 1000]>>

----------------------------------------------------------------------------
(* SpecFinalMerge: a server summary and an uploaded final_stats file *)

MaxFinalMerges == 2
MaxLocalHistory == 2
MaxForeignHistory == 2

SongD == "d.mp3"

LocalHistoryEntries ==
    { [filename |-> SongA, timestamp |-> 1000],
      [filename |-> SongB, timestamp |-> 2000],
      [filename |-> SongC, timestamp |-> 3000] }

\* a.mp3 with a newer timestamp than the server has, d.mp3 twice
ForeignHistoryEntries ==
    { [filename |-> SongA, timestamp |-> 5000],
      [filename |-> SongD, timestamp |-> 1500],
      [filename |-> SongD, timestamp |-> 3500] }

LocalConfigs ==
    { EmptyConfig, ("history_limit" :> 2) @@ ("anti_repeat" :> 1) }

ForeignConfigs ==
    { EmptyConfig, LimitConfig(1), ("history_limit" :> 2) @@ ("mode" :> 3) }

UploadedShuffleStates ==
    { ShuffleBody(hc, c, k, h) @@ UploadedCounters :
        hc \in BOOLEAN, c \in ForeignConfigs, k \in {"absent", "dicts"},
        h \in SeqsUpTo(ForeignHistoryEntries, MaxForeignHistory) }

InitFinalMerge ==
    /\ stats_buffer = [u \in Users |-> <<>>]
    /\ is_flushing = FALSE
    /\ sessions = [u \in Users |-> NoSessions]
    /\ events = [u \in Users |-> <<>>]
    /\ \E c \in LocalConfigs, h \in SeqsUpTo(LocalHistoryEntries, MaxLocalHistory) :
          summary = [u \in Users |->
                        IF u = LiveUser
                        THEN [NewSummary EXCEPT !.shuffle_state = [config |-> c, history |-> h]]
                        ELSE NewSummary]
    /\ stats_db = [u \in Users |-> TRUE]
    /\ upload \in {b \in UploadedShuffleStates :
                      /\ (~b.has_config => b.config = EmptyConfig)
                      /\ (b.kind = "absent" => b.history = <<>>)}
    /\ lastOp = Op("update_shuffle_state", LiveUser, NoEntry, NoFail)
    /\ nCalls = 0
    /\ thread = IdleThreads
    /\ data_db = [u \in Users |-> {}]
    /\ timer = StartTimer
    /\ global_users = Users
    /\ queue = NoQueues

NextFinalMerge == nCalls < MaxFinalMerges /\ UploadFinalStats(LiveUser, upload)

SpecFinalMerge == InitFinalMerge /\ [][NextFinalMerge]_vars

----------------------------------------------------------------------------
(* Claims on the final_stats merge (SpecFinalMerge) *)

FinalMergeStep == lastOp'.op = "upload_final_stats" /\ nCalls' = nCalls + 1

NamesOf(h) == {h[i].filename : i \in 1..Len(h)}
CountIn(h, e) == Cardinality({i \in 1..Len(h) : h[i] = e})
EntriesOf(h) == {h[i] : i \in 1..Len(h)}
NewestFirst(h) == \A i, j \in 1..Len(h) : i < j => h[i].timestamp >= h[j].timestamp
NotNewerThanAll(e, h) == \A i \in 1..Len(h) : h[i].timestamp >= e.timestamp
SmallerOf(a, b) == IF a < b THEN a ELSE b

\* h2 is the union by filename of the local history h and the foreign
\* history f, local entries kept as they are, newest first, cut to limit
UnionLocalWins(h, f, h2, limit) ==
    LET newNames == NamesOf(f) \ NamesOf(h)
    IN  /\ NewestFirst(h2)
        /\ Len(h2) = SmallerOf(limit, Len(h) + Cardinality(newNames))
        /\ \A e \in EntriesOf(h2) :
              IF e.filename \in NamesOf(h)
              THEN CountIn(h2, e) <= CountIn(h, e)
              ELSE /\ e \in EntriesOf(f)
                   /\ Cardinality({i \in 1..Len(h2) : h2[i].filename = e.filename}) = 1
        /\ \A e \in EntriesOf(h) : CountIn(h2, e) < CountIn(h, e) => NotNewerThanAll(e, h2)
        /\ \A n \in newNames :
              n \notin NamesOf(h2) =>
                 \E e \in EntriesOf(f) : e.filename = n /\ NotNewerThanAll(e, h2)

C26_ConfigPerKeyOverwrite ==
    [][FinalMergeStep =>
          LET old == summary[LiveUser].shuffle_state.config
              new == summary'[LiveUser].shuffle_state.config
              sent == IF upload.has_config THEN upload.config ELSE EmptyConfig
          IN  /\ DOMAIN new = (DOMAIN old) \cup (DOMAIN sent)
              /\ \A k \in DOMAIN sent : new[k] = sent[k]
              /\ \A k \in (DOMAIN old) \ (DOMAIN sent) : new[k] = old[k]]_vars

\* C26 witness: the upload's history_limit 1 replaced the server's 2 and the
\* server's anti_repeat, absent from the upload, is still 1.
C26_Witness ==
    /\ lastOp.op = "upload_final_stats"
    /\ upload.has_config /\ upload.config = LimitConfig(1)
    /\ summary[LiveUser].shuffle_state.config =
          ("history_limit" :> 1) @@ ("anti_repeat" :> 1)

----------------------------------------------------------------------------
(* The periodic flush task and the flush command of the event loop *)

\* seconds that a call of flush_stats keeps the event loop busy
FlushTimes == {0, 2}

Later(age, d) == IF age + d > FlushPeriod THEN FlushPeriod ELSE age + d
SleptFor(slept, d) == IF slept + d >= 1 THEN 1 ELSE 0

\* the loop is idle for a second, while the periodic task sleeps
Tick ==
    /\ timer.slept < 1
    /\ timer' = [timer EXCEPT !.elapsed = Later(@, 1), !.slept = 1,
                              !.since_periodic = Later(@, 1),
                              !.since_explicit = Later(@, 1)]
    /\ lastOp' = Op("sleep", "", NoEntry, NoFail)
    /\ UNCHANGED <<stats_buffer, is_flushing, sessions, events, summary, stats_db,
                   upload, nCalls, thread, data_db, global_users, queue>>

\* periodic_flush, one turn of its loop after "await asyncio.sleep(1)";
\* last_periodic_flush becomes the time read before the flush
PeriodicCheck(d, fail) ==
    /\ timer.slept >= 1
    /\ IF timer.elapsed >= FlushPeriod
       THEN /\ FailChoice(fail)
            /\ FlushEffect(fail)
            /\ lastOp' = Op("periodic_flush", "", NoEntry, fail)
            /\ timer' = [timer EXCEPT !.elapsed = d, !.slept = 0,
                                      !.since_periodic = d,
                                      !.since_explicit = Later(@, d)]
       ELSE /\ d = 0 /\ fail = NoFail
            /\ lastOp' = Op("periodic_check", "", NoEntry, NoFail)
            /\ timer' = [timer EXCEPT !.slept = 0]
            /\ UNCHANGED <<stats_buffer, sessions, events, summary>>
    /\ UNCHANGED <<is_flushing, stats_db, upload, nCalls, thread, data_db, global_users, queue>>

\* variant: the flush command leaves last_periodic_flush alone
CommandFlushNoReset(d, fail) ==
    /\ FailChoice(fail)
    /\ FlushEffect(fail)
    /\ lastOp' = Op("flush_command", "", NoEntry, fail)
    /\ timer' = [timer EXCEPT !.elapsed = Later(@, d), !.slept = SleptFor(@, d),
                              !.since_periodic = Later(@, d),
                              !.since_explicit = 0, !.commanded = TRUE]
    /\ UNCHANGED <<is_flushing, stats_db, upload, nCalls, thread, data_db, global_users, queue>>

\* listen_for_commands, a "flush" command: flush_stats(), then
\* last_periodic_flush becomes the time after the flush
CommandFlush(d, fail) ==
    /\ FailChoice(fail)
    /\ FlushEffect(fail)
    /\ lastOp' = Op("flush_command", "", NoEntry, fail)
    /\ timer' = [timer EXCEPT !.elapsed = 0, !.slept = SleptFor(@, d),
                              !.since_periodic = Later(@, d),
                              !.since_explicit = 0, !.commanded = TRUE]
    /\ UNCHANGED <<is_flushing, stats_db, upload, nCalls, thread, data_db, global_users, queue>>

----------------------------------------------------------------------------
(* SpecPeriodic: the clock, the periodic task and flush commands *)

NextPeriodic ==
    \/ Tick
    \/ \E d \in FlushTimes : PeriodicCheck(d, NoFail)
    \/ \E d \in FlushTimes : CommandFlush(d, NoFail)

SpecPeriodic == Init /\ [][NextPeriodic]_vars

----------------------------------------------------------------------------
(* Claims on the periodic timer (SpecPeriodic) *)

PeriodicFlushStep == lastOp'.op = "periodic_flush" /\ lastOp.op # "periodic_flush"

\* C27: the periodic task calls flush_stats only when at least 300 s have
\* elapsed since the later of its own previous periodic flush and the last
\* flush command: an explicit flush resets the timer, and the trigger is
\* measured in elapsed time.
C27_PeriodicAfterFullPeriod ==
    [][PeriodicFlushStep =>
          /\ timer.since_periodic >= FlushPeriod
          /\ timer.since_explicit >= FlushPeriod]_vars

\* C27 witness: a periodic flush has just run, a flush command was served
\* before it and the previous periodic flush is a full period back.
C27_Witness ==
    /\ lastOp.op = "periodic_flush"
    /\ timer.commanded
    /\ timer.since_explicit >= FlushPeriod
    /\ timer.since_periodic <= 2

----------------------------------------------------------------------------
(* SpecEventually: reports of two users come in through the thread pool
   while the periodic task, scheduled again and again, runs flush_stats
   statement by statement *)

MaxLiveAppends == 2

FirstReporter == "u1"

\* the play time of the reports accepted for u: FirstReporter sends the
\* first report, the other user the later ones
AcceptedFrom(u) ==
    IF u = FirstReporter THEN (IF nCalls >= 1 THEN 1 ELSE 0)
    ELSE (IF nCalls >= 1 THEN nCalls - 1 ELSE 0)

\* POST /stats/track of u, served by a worker thread (list.append on the
\* user's list, created on first use); a snapshot that still shares the lists
\* of the buffer dict sees the report if it holds the user's list
TrackStatsOf(u) ==
    /\ nCalls < MaxLiveAppends
    /\ (u = FirstReporter) = (nCalls = 0)
    /\ Accepts(ConcReport)
    /\ stats_buffer' = [stats_buffer EXCEPT ![u] = Append(@, ConcReport)]
    /\ thread' = [t \in DOMAIN thread |->
          IF thread[t].live /\ thread[t].snap[u] # <<>>
          THEN [thread[t] EXCEPT !.snap[u] = Append(@, ConcReport)]
          ELSE thread[t]]
    /\ lastOp' = Op("append_stats", u, ConcReport, NoFail)
    /\ nCalls' = nCalls + 1
    /\ UNCHANGED <<is_flushing, sessions, events, summary, stats_db, upload, data_db,
                   timer, global_users, queue>>

\* the statements of a flush_stats call of the periodic task
PeriodicTask ==
    \/ BeginCall("periodic")
    \/ CheckFlushing("periodic")
    \/ SetFlushing("periodic")
    \/ DropEmpty("periodic")
    \/ TakeSnapshot("periodic")
    \/ ClearBuffer("periodic")
    \/ ProcessSnapshot("periodic")
    \/ ResetFlushing("periodic")

NextEventually ==
    \/ \E u \in Users : TrackStatsOf(u)
    \/ PeriodicTask

\* the periodic task keeps being scheduled and its thread keeps running
SpecEventually == Init /\ [][NextEventually]_vars /\ WF_vars(PeriodicTask)

----------------------------------------------------------------------------
(* Claims on the eventual persistence of reports (SpecEventually) *)

PersistedFrom(u, k) ==
    /\ PlayTimeOf(events[u]) >= k * ConcReport.duration_played
    /\ summary[u].total_play_time >= k * ConcReport.duration_played

\* C28: every report accepted by append_stats is eventually persisted in the
\* store and reflected in the summary, provided the periodic flush task keeps
\* being scheduled, the process does not crash and storage does not fail.
C28_EventuallyPersisted ==
    \A u \in Users : \A k \in 1..MaxLiveAppends :
        (AcceptedFrom(u) >= k) ~> PersistedFrom(u, k)

----------------------------------------------------------------------------
(* SpecRename: POST /auth/update-username served by a worker thread while
   reports of the user come in and the periodic task flushes *)

OldName == "u1"

\* update_username after its flush_stats() has returned: the GlobalUser checks,
\* the record moved to the new name, the three files renamed where they exist
RenameUser(t, new) ==
    /\ thread[t].pc = "read"
    /\ thread' = [thread EXCEPT ![t].pc = "returned"]
    /\ IF new \in global_users \/ OldName \notin global_users
       THEN /\ lastOp' = OpS("update_username", OldName, NoEntry, NoFail, 400)
            /\ UNCHANGED <<sessions, events, summary, stats_db, data_db, global_users>>
       ELSE /\ lastOp' = Op("update_username", OldName, NoEntry, NoFail)
            /\ global_users' = (global_users \ {OldName}) \cup {new}
            /\ data_db' = [data_db EXCEPT ![new] = data_db[OldName], ![OldName] = {}]
            /\ stats_db' = [stats_db EXCEPT
                              ![new] = stats_db[OldName] \/ stats_db[new],
                              ![OldName] = FALSE]
            /\ sessions' = IF stats_db[OldName]
                           THEN [sessions EXCEPT ![new] = sessions[OldName],
                                                 ![OldName] = NoSessions]
                           ELSE sessions
            /\ events' = IF stats_db[OldName]
                         THEN [events EXCEPT ![new] = events[OldName], ![OldName] = <<>>]
                         ELSE events
            /\ summary' = [summary EXCEPT ![new] = summary[OldName],
                                          ![OldName] = NewSummary]
    /\ UNCHANGED <<stats_buffer, is_flushing, upload, nCalls, timer, queue>>

\* only OldName has an account and files
InitRename ==
    /\ stats_buffer = NoBuffers
    /\ is_flushing = FALSE
    /\ sessions = [u \in Users |-> NoSessions]
    /\ events = [u \in Users |-> <<>>]
    /\ summary = [u \in Users |-> NewSummary]
    /\ stats_db = [u \in Users |-> u = OldName]
    /\ upload = NoUpload
    /\ lastOp = Op("create_user", OldName, NoEntry, NoFail)
    /\ nCalls = 0
    /\ thread = IdleThreads
    /\ data_db = [u \in Users |-> {}]
    /\ timer = StartTimer
    /\ global_users = {OldName}
    /\ queue = NoQueues

\* the request thread serves one update-username call
NextRename ==
    \/ TrackStats
    \/ BeginCall("periodic")
    \/ thread["request"].pc = "idle" /\ BeginCall("request")
    \/ \E t \in Threads : CheckFlushing(t)
    \/ \E t \in Threads : SetFlushing(t)
    \/ \E t \in Threads : DropEmpty(t)
    \/ \E t \in Threads : TakeSnapshot(t)
    \/ \E t \in Threads : ClearBuffer(t)
    \/ \E t \in Threads : ProcessSnapshot(t)
    \/ \E t \in Threads : ResetFlushing(t)
    \/ \E new \in Users : RenameUser("request", new)

SpecRename == InitRename /\ [][NextRename]_vars

----------------------------------------------------------------------------
(* Claims on renaming a user (SpecRename) *)

RenamedTo(new) == new \in global_users /\ OldName \notin global_users

\* no call of flush_stats is under way and the rename has returned
RenameSettled ==
    /\ thread["request"].pc = "returned"
    /\ thread["periodic"].pc = "idle"

\* C29: renaming a user loses no in-flight stats: once a rename has succeeded
\* and the flush cycles in progress have ended, every report accepted for the
\* user before update_username was called is in the store and the summary of
\* the new username, under every interleaving with flushes and appends.
C29_RenameKeepsStats ==
    \A new \in Users \ {OldName} :
        (RenamedTo(new) /\ RenameSettled) =>
            /\ PlayTimeOf(events[new]) >= thread["request"].owed
            /\ summary[new].total_play_time >= thread["request"].owed

----------------------------------------------------------------------------
(* SpecInterleave: a stats merge (on the event loop) and the SQL step of a
   flush cycle (on a worker thread) on the same <username>_stats.db, one SQL
   statement at a time.  Each has its own connection: a SELECT sees the
   committed rows and the rows of its own open transaction, the first INSERT
   of a transaction takes SQLite's write lock, commit or rollback frees it,
   and an INSERT waits while the other connection holds the lock. *)

MaxMergeEvents == 1
MaxFlushBatch == 2

\* the store before both start: session s1 with one event
StoreBefore ==
    [sessions |-> [id \in {"s1"} |-> LocalSessionRow],
     events |-> <<Row("s1", SongB, "listen", 1000, 60000, 200000, 30, Unknown, Unknown)>>]

\* the coalesced batches a flush cycle can hold for the user: reports of the
\* stored session s1 and of a session s2 the store does not have yet
FlushBatches ==
    { b \in SeqsUpTo({ Entry("s2", SongA, 120000, 200000, "listen", 2000, "ios",
                             Unknown, Unknown),
                       Entry("s1", SongA, 4000, 200000, "skip", 3000, "ios",
                             Unknown, Unknown),
                       Entry("s2", SongB, 195000, 200000, "listen", 4000, "ios",
                             195000, 0) }, MaxFlushBatch) :
        /\ b # <<>>
        /\ \A i \in 1..(Len(b) - 1) : b[i].timestamp < b[i + 1].timestamp }

\* the uploaded file: its sessions in rowid order and its events
UploadedFiles ==
    { [sessions |-> fs, events |-> fe] :
        fs \in ForeignSessionTables, fe \in SeqsUpTo(MergeRows, MaxMergeEvents) }

SessionIds(tbl) == SelectSeq(<<"s1", "s2">>, LAMBDA id : id \in DOMAIN tbl)

NoRows == [sessions |-> NoSessions, events |-> <<>>]

\* merge: position, uploaded sessions and events still to go, result of the
\* last "existing" SELECT, rows inserted and not committed.  flush: position,
\* the batch, index of the current entry, result of the last PlaySession
\* SELECT, the PlayEvent added to the ORM session and not yet INSERTed, rows
\* INSERTed and not committed.  lock: holder of the write lock.
InitInterleave ==
    /\ stats_buffer = NoBuffers
    /\ is_flushing = TRUE
    /\ sessions = [u \in Users |-> IF u = MergeUser THEN StoreBefore.sessions
                                   ELSE NoSessions]
    /\ events = [u \in Users |-> IF u = MergeUser THEN StoreBefore.events ELSE <<>>]
    /\ summary = [u \in Users |-> NewSummary]
    /\ stats_db = [u \in Users |-> TRUE]
    /\ upload \in UploadedFiles
    /\ lastOp = Op("create_user", "", NoEntry, NoFail)
    /\ nCalls = 0
    /\ \E b \in FlushBatches :
          thread = [merge |-> [pc |-> "begin", todoS |-> <<>>, todoE |-> <<>>,
                               found |-> FALSE, tx |-> NoRows],
                    flush |-> [pc |-> "select", batch |-> b, i |-> 1, found |-> FALSE,
                               pending |-> <<>>, tx |-> NoRows],
                    lock |-> ""]
    /\ data_db = [u \in Users |-> {}]
    /\ timer = StartTimer
    /\ global_users = Users
    /\ queue = NoQueues

LockFreeFor(who) == thread.lock \in {"", who}

\* "if not os.path.exists(server_path)" is false; both SELECTs of the uploaded
\* file
MergeBegin ==
    /\ thread.merge.pc = "begin"
    /\ thread' = [thread EXCEPT !.merge.pc = "select_session",
                                !.merge.todoS = SessionIds(upload.sessions),
                                !.merge.todoE = upload.events]
    /\ UNCHANGED <<stats_buffer, is_flushing, sessions, events, summary, stats_db,
                   upload, lastOp, nCalls, data_db, timer, global_users, queue>>

\* "SELECT id FROM playsession WHERE id = :id"
MergeSelectSession ==
    /\ thread.merge.pc = "select_session"
    /\ thread' =
          IF thread.merge.todoS = <<>>
          THEN [thread EXCEPT !.merge.pc = "select_event"]
          ELSE [thread EXCEPT !.merge.pc = "insert_session",
                   !.merge.found =
                       Head(thread.merge.todoS) \in
                           DOMAIN sessions[MergeUser] \cup DOMAIN thread.merge.tx.sessions]
    /\ UNCHANGED <<stats_buffer, is_flushing, sessions, events, summary, stats_db,
                   upload, lastOp, nCalls, data_db, timer, global_users, queue>>

\* "if not existing: INSERT INTO playsession ...": a row with this id that
\* was committed since the SELECT makes the INSERT raise (primary key), the
\* transaction is rolled back and the handler answers 500
MergeInsertSession ==
    /\ thread.merge.pc = "insert_session"
    /\ LET id == Head(thread.merge.todoS)
       IN  IF thread.merge.found
           THEN /\ thread' = [thread EXCEPT !.merge.pc = "select_session",
                                            !.merge.todoS = Tail(@)]
                /\ UNCHANGED lastOp
           ELSE /\ LockFreeFor("merge")
                /\ IF id \in DOMAIN sessions[MergeUser]
                   THEN /\ thread' = [thread EXCEPT !.merge.pc = "failed",
                                                    !.merge.tx = NoRows,
                                                    !.lock = ""]
                        /\ lastOp' = OpS("upload_stats_db", MergeUser, NoEntry,
                                         NoFail, 500)
                   ELSE /\ thread' = [thread EXCEPT
                              !.merge.pc = "select_session",
                              !.merge.todoS = Tail(@),
                              !.merge.tx.sessions = @ @@ (id :> upload.sessions[id]),
                              !.lock = "merge"]
                        /\ UNCHANGED lastOp
    /\ UNCHANGED <<stats_buffer, is_flushing, sessions, events, summary, stats_db,
                   upload, nCalls, data_db, timer, global_users, queue>>

\* "SELECT id FROM playevent WHERE timestamp = :ts AND song_filename = :fn"
MergeSelectEvent ==
    /\ thread.merge.pc = "select_event"
    /\ thread' =
          IF thread.merge.todoE = <<>>
          THEN [thread EXCEPT !.merge.pc = "commit"]
          ELSE LET rows == events[MergeUser] \o thread.merge.tx.events
               IN  [thread EXCEPT !.merge.pc = "insert_event",
                       !.merge.found =
                           \E j \in 1..Len(rows) :
                               EventKey(rows[j]) = EventKey(Head(thread.merge.todoE))]
    /\ UNCHANGED <<stats_buffer, is_flushing, sessions, events, summary, stats_db,
                   upload, lastOp, nCalls, data_db, timer, global_users, queue>>

\* "if not existing: INSERT INTO playevent ..."
MergeInsertEvent ==
    /\ thread.merge.pc = "insert_event"
    /\ IF thread.merge.found
       THEN thread' = [thread EXCEPT !.merge.pc = "select_event",
                                     !.merge.todoE = Tail(@)]
       ELSE /\ LockFreeFor("merge")
            /\ thread' = [thread EXCEPT
                  !.merge.pc = "select_event",
                  !.merge.todoE = Tail(@),
                  !.merge.tx.events = Append(@, Head(thread.merge.todoE)),
                  !.lock = "merge"]
    /\ UNCHANGED <<stats_buffer, is_flushing, sessions, events, summary, stats_db,
                   upload, lastOp, nCalls, data_db, timer, global_users, queue>>

\* "server_session.commit()", then recalculate_final_stats raises
MergeCommit ==
    /\ thread.merge.pc = "commit"
    /\ sessions' = [sessions EXCEPT ![MergeUser] = @ @@ thread.merge.tx.sessions]
    /\ events' = [events EXCEPT ![MergeUser] = @ \o thread.merge.tx.events]
    /\ thread' = [thread EXCEPT !.merge.pc = "done", !.merge.tx = NoRows,
                                !.lock = IF @ = "merge" THEN "" ELSE @]
    /\ lastOp' = OpS("upload_stats_db", MergeUser, NoEntry, NoFail, 500)
    /\ UNCHANGED <<stats_buffer, is_flushing, summary, stats_db, upload, nCalls,
                   data_db, timer, global_users, queue>>

\* "db_session = session.exec(select(PlaySession).where(...)).first()"; the
\* query first sends the INSERT of the PlayEvent added in the iteration
\* before (autoflush), which opens the flush's transaction
FlushSelectSession ==
    /\ thread.flush.pc = "select"
    /\ thread.flush.pending # <<>> => LockFreeFor("flush")
    /\ thread' = [thread EXCEPT
          !.flush.pc = "commit_session",
          !.flush.found =
              thread.flush.batch[thread.flush.i].session_id \in DOMAIN sessions[MergeUser],
          !.flush.tx.events = @ \o thread.flush.pending,
          !.flush.pending = <<>>,
          !.lock = IF thread.flush.pending # <<>> THEN "flush" ELSE @]
    /\ UNCHANGED <<stats_buffer, is_flushing, sessions, events, summary, stats_db,
                   upload, lastOp, nCalls, data_db, timer, global_users, queue>>

\* "session.add(db_session)", "session.commit()" and the PlayEvent built and
\* added.  A PlaySession(id=...) built because the SELECT found none is an
\* INSERT: if the id has been committed since, it raises, the transaction is
\* rolled back and "except Exception" ends the SQL step of this user.
FlushCommitSession ==
    /\ thread.flush.pc = "commit_session"
    /\ LockFreeFor("flush")
    /\ LET st == thread.flush.batch[thread.flush.i]
       IN  IF ~thread.flush.found /\ st.session_id \in DOMAIN sessions[MergeUser]
           THEN /\ thread' = [thread EXCEPT !.flush.pc = "failed",
                                            !.flush.tx = NoRows, !.lock = ""]
                /\ UNCHANGED <<sessions, events>>
           ELSE /\ sessions' = [sessions EXCEPT ![MergeUser] = UpsertSession(@, st)]
                /\ events' = [events EXCEPT ![MergeUser] = @ \o thread.flush.tx.events]
                /\ thread' = [thread EXCEPT
                      !.flush.pc = IF thread.flush.i = Len(thread.flush.batch)
                                   THEN "final" ELSE "select",
                      !.flush.i = IF thread.flush.i = Len(thread.flush.batch)
                                  THEN @ ELSE @ + 1,
                      !.flush.pending = <<EventRow(Reclassified(st))>>,
                      !.flush.tx = NoRows,
                      !.lock = ""]
    /\ UNCHANGED <<stats_buffer, is_flushing, summary, stats_db, upload, lastOp,
                   nCalls, data_db, timer, global_users, queue>>

\* the "session.commit()" after the loop: the last PlayEvent
FlushFinalCommit ==
    /\ thread.flush.pc = "final"
    /\ LockFreeFor("flush")
    /\ events' = [events EXCEPT ![MergeUser] = @ \o thread.flush.pending]
    /\ thread' = [thread EXCEPT !.flush.pc = "done", !.flush.pending = <<>>]
    /\ UNCHANGED <<stats_buffer, is_flushing, sessions, summary, stats_db, upload,
                   lastOp, nCalls, data_db, timer, global_users, queue>>

NextInterleave ==
    \/ MergeBegin
    \/ MergeSelectSession
    \/ MergeInsertSession
    \/ MergeSelectEvent
    \/ MergeInsertEvent
    \/ MergeCommit
    \/ FlushSelectSession
    \/ FlushCommitSession
    \/ FlushFinalCommit

SpecInterleave == InitInterleave /\ [][NextInterleave]_vars

----------------------------------------------------------------------------
(* Claims on a merge interleaved with a flush (SpecInterleave) *)

BothEnded ==
    /\ thread.merge.pc \in {"done", "failed"}
    /\ thread.flush.pc \in {"done", "failed"}

HasRow(rows, r) == \E j \in 1..Len(rows) : rows[j] = r
HasKey(rows, r) == \E j \in 1..Len(rows) : EventKey(rows[j]) = EventKey(r)

FlushRows == [i \in 1..Len(thread.flush.batch) |->
                 EventRow(Reclassified(thread.flush.batch[i]))]

\* C30: for every interleaving of a stats merge and a live flush cycle on
\* the same user's store, the final store holds every row that was there
\* before, every event of the flush's batch and, when the merge went through,
\* every foreign session and every foreign event (by its key); no key has
\* more rows than after the merge followed by the flush.
C30_InterleavingKeepsRows ==
    BothEnded =>
        LET rows == events[MergeUser]
        IN  /\ \A id \in DOMAIN StoreBefore.sessions : id \in DOMAIN sessions[MergeUser]
            /\ \A j \in 1..Len(StoreBefore.events) : HasRow(rows, StoreBefore.events[j])
            /\ \A i \in 1..Len(FlushRows) : HasRow(rows, FlushRows[i])
            /\ thread.merge.pc = "done" =>
                  /\ DOMAIN upload.sessions \subseteq DOMAIN sessions[MergeUser]
                  /\ \A j \in 1..Len(upload.events) : HasKey(rows, upload.events[j])
            /\ \A j \in 1..Len(rows) :
                  KeyCount(rows, RowKey(rows[j])) <=
                      KeyCount(StoreBefore.events, RowKey(rows[j]))
                      + KeyCount(FlushRows, RowKey(rows[j]))
                      + (IF HasKey(upload.events, rows[j])
                            /\ ~HasKey(StoreBefore.events, rows[j]) THEN 1 ELSE 0)


----------------------------------------------------------------------------
(* SpecLength: two users send the same reports, each report of the second
   user carrying another total_length than the first user's; flushes run
   when both have sent the same number of reports *)

MaxLengthCalls == 4

ClientLengths == {0, 100000, 200000}

LengthPool ==
    { Entry("s1", SongA, 95000, tl, "skip", 1000, "ios", Unknown, Unknown) :
          tl \in ClientLengths }
    \cup { Entry("s1", SongB, 30000, tl, "listen", 2000, "ios", Unknown, Unknown) :
          tl \in ClientLengths }

NextLength ==
    \/ \E r \in LengthPool :
          /\ nCalls < MaxLengthCalls /\ nCalls % 2 = 0
          /\ AppendStats("u1", r)
    \/ \E tl \in ClientLengths :
          /\ nCalls % 2 = 1
          /\ tl # lastOp.arg.total_length
          /\ AppendStats("u2", [lastOp.arg EXCEPT !.total_length = tl])
    \/ nCalls % 2 = 0 /\ lastOp.op = "append_stats" /\ FlushStats(NoFail)

SpecLength == Init /\ [][NextLength]_vars

----------------------------------------------------------------------------
(* Claims on the client-supplied total_length (SpecLength) *)

\* C31: the stored total_length, play_ratio and tail-completion decision do
\* not depend on the total_length sent by the client: once two users have
\* sent reports that differ only in the client-supplied total_length and the
\* flush has run, their stored events and their summaries are the same.
C31_ClientLengthIgnored ==
    (nCalls % 2 = 0 /\ stats_buffer = NoBuffers) =>
        /\ events["u1"] = events["u2"]
        /\ summary["u1"] = summary["u2"]


----------------------------------------------------------------------------
(* SpecWindow: a store that starts empty and is fed by failure-free flushes
   and by merges of snapshots whose session rows span their events *)

MaxWindowCalls == 3

\* a report with a timestamp finer than 10 ms and reports on the 10 ms grid
WindowPool ==
    { Entry("s1", SongA, 50000, 200000, "listen", 1234, "ios", Unknown, Unknown),
      Entry("s1", SongB, 50000, 200000, "listen", 3000, "ios", Unknown, Unknown),
      Entry("s2", SongB, 50000, 200000, "listen", 4000, "ios", Unknown, Unknown) }

\* uploaded files whose session row spans its events: s1 from 500 to 5000
\* with an event at each end, or s1 with the one event at 5000
WindowUploads ==
    { [sessions |-> ("s1" :> [start_time |-> 500, end_time |-> 5000, platform |-> "ios"]),
       events |-> << Row("s1", SongC, "listen", 500, 60000, 200000, 30, Unknown, Unknown),
                     Row("s1", SongA, "listen", 5000, 60000, 200000, 30, Unknown, Unknown) >>],
      [sessions |-> ("s1" :> [start_time |-> 5000, end_time |-> 5000, platform |-> "ios"]),
       events |-> << Row("s1", SongA, "listen", 5000, 60000, 200000, 30, Unknown, Unknown) >>] }

InitWindow ==
    /\ stats_buffer = NoBuffers
    /\ is_flushing = FALSE
    /\ sessions = [u \in Users |-> NoSessions]
    /\ events = [u \in Users |-> <<>>]
    /\ summary = [u \in Users |-> NewSummary]
    /\ stats_db = [u \in Users |-> TRUE]
    /\ upload \in WindowUploads
    /\ lastOp = Op("create_user", "", NoEntry, NoFail)
    /\ nCalls = 0
    /\ thread = IdleThreads
    /\ data_db = [u \in Users |-> {}]
    /\ timer = StartTimer
    /\ global_users = Users
    /\ queue = NoQueues

NextWindow ==
    \/ \E r \in WindowPool : nCalls < MaxWindowCalls /\ AppendStats(LiveUser, r)
    \/ FlushStats(NoFail)
    \/ UploadStatsDb(LiveUser, upload)

SpecWindow == InitWindow /\ [][NextWindow]_vars

----------------------------------------------------------------------------
(* Claims on the time span of a session (SpecWindow) *)

TimesOf(rows, id) == {rows[j].timestamp : j \in {i \in 1..Len(rows) : rows[i].session_id = id}}

\* C32: in every store state reached by flushes and stats merges, the
\* start_time of each PlaySession is the minimum and its end_time the maximum
\* of the timestamps of the events stored for the session.
C32_SessionSpansEvents ==
    \A u \in Users : \A id \in DOMAIN sessions[u] :
        LET ts == TimesOf(events[u], id)
        IN  ts # {} =>
               /\ sessions[u][id].start_time \in ts
               /\ sessions[u][id].end_time \in ts
               /\ \A t \in ts : sessions[u][id].start_time <= t
                                /\ t <= sessions[u][id].end_time


----------------------------------------------------------------------------
(* Claims on the counters written by a rebuild (SpecRebuild) *)

CountRows(rows, P(_)) == Cardinality({i \in 1..Len(rows) : P(rows[i])})

PlayedByRatio(row) == RatioOver025(row.duration_played, row.total_length)
SkippedEarly(row) ==
    row.event_type = "skip" /\ RatioUnder02(row.duration_played, row.total_length)

\* C33: after rebuild_user_stats, total_songs_played is the number of stored
\* events whose play ratio is above 0.25 and total_skipped is the number of
\* stored events of (reclassified) type skip whose ratio is below 0.2, the
\* rules of the live summary builder.
C33_RebuildCountsLikeLive ==
    lastOp.op = "rebuild_user_stats" =>
        /\ summary[LiveUser].total_songs_played =
              CountRows(events[LiveUser], PlayedByRatio)
        /\ summary[LiveUser].total_skipped = CountRows(events[LiveUser], SkippedEarly)


----------------------------------------------------------------------------
(* QueueService: sync_queue and get_next_song *)

\* QueueItem, without queue_id and added_at
QueueItem(fn, prio) == [song_filename |-> fn, is_priority |-> prio]

\* variant: "If client version >= server version, client wins"
ClientIsNewerOrEqual(client_version, server_version) == client_version >= server_version

\* "if client_version > server_state.version:"
ClientIsNewer(client_version, server_version) == client_version > server_version

\* sync_queue(username, client_queue, current_index, client_version); the
\* request and the state returned are kept in lastOp
SyncQueue(u, req) ==
    /\ IF ClientIsNewer(req.version, queue[u].version)
       THEN /\ queue' = [queue EXCEPT ![u] = req]
            /\ lastOp' = Op("sync_queue", u, [request |-> req, returned |-> req], NoFail)
       ELSE /\ UNCHANGED queue
            /\ lastOp' = Op("sync_queue", u, [request |-> req, returned |-> queue[u]],
                            NoFail)
    /\ nCalls' = nCalls + 1
    /\ UNCHANGED <<stats_buffer, is_flushing, sessions, events, summary, stats_db, upload,
                   thread, data_db, timer, global_users>>

\* ShuffleConfig(**config_dict).enabled, False when the key is absent
ShuffleEnabled(config) == "enabled" \in DOMAIN config /\ config["enabled"]

\* the queue as get_next_song saves it; picked is the result of
\* _pick_next_shuffled_song, "" for None.  The summary is read after the
\* flush of get_stats_summary.
QueueAfterNext(q, config, picked) ==
    LET next_index == q.current_index + 1
    IN  IF next_index < Len(q.items)
        THEN [q EXCEPT !.current_index = next_index]
        ELSE IF ~ShuffleEnabled(config) \/ picked = ""
             THEN q
             ELSE QueueState(Append(q.items, QueueItem(picked, FALSE)), Len(q.items),
                             q.version + 1)

\* get_next_song(username)
GetNextSong(u, picked, fail) ==
    /\ FailChoice(fail)
    /\ FlushEffect(fail)
    /\ queue' = [queue EXCEPT ![u] =
                    QueueAfterNext(@, summary'[u].shuffle_state.config, picked)]
    /\ lastOp' = Op("get_next_song", u, NoEntry, fail)
    /\ nCalls' = nCalls + 1
    /\ UNCHANGED <<is_flushing, stats_db, upload, thread, data_db, timer, global_users>>

----------------------------------------------------------------------------
(* SpecQueue: queue syncs of clients holding versions 0..MaxClientVersion,
   next-song requests with shuffle off or on, and plays in between *)

MaxQueueCalls == 3
MaxClientVersion == 2

QueueUser == "u1"

ClientQueues ==
    { QueueState(items, idx, ver) :
        items \in { <<>>, <<QueueItem(SongA, FALSE)>>,
                    <<QueueItem(SongB, TRUE), QueueItem(SongA, FALSE)>> },
        idx \in {0, 1}, ver \in 0..MaxClientVersion }

EnabledConfig == [k \in {"enabled"} |-> TRUE]

InitQueue ==
    /\ stats_buffer = NoBuffers
    /\ is_flushing = FALSE
    /\ sessions = [u \in Users |-> NoSessions]
    /\ events = [u \in Users |-> <<>>]
    /\ \E c \in {EmptyConfig, EnabledConfig} :
          summary = [u \in Users |-> [NewSummary EXCEPT !.shuffle_state.config = c]]
    /\ stats_db = [u \in Users |-> TRUE]
    /\ upload = NoUpload
    /\ lastOp = Op("create_user", "", NoEntry, NoFail)
    /\ nCalls = 0
    /\ thread = IdleThreads
    /\ data_db = [u \in Users |-> {}]
    /\ timer = StartTimer
    /\ global_users = Users
    /\ queue = NoQueues

NextQueue ==
    \/ \E req \in ClientQueues : nCalls < MaxQueueCalls /\ SyncQueue(QueueUser, req)
    \/ \E picked \in {"", SongC} :
          nCalls < MaxQueueCalls /\ GetNextSong(QueueUser, picked, NoFail)
    \/ /\ nCalls < MaxQueueCalls /\ stats_buffer = NoBuffers
       /\ AppendStats(QueueUser, ConcReport)

SpecQueue == InitQueue /\ [][NextQueue]_vars

----------------------------------------------------------------------------
(* Claims on the queue version (SpecQueue) *)

SyncStep == lastOp'.op = "sync_queue" /\ nCalls' = nCalls + 1

----------------------------------------------------------------------------
(* SpecGuard: the threads of SpecConc, with cycles in which the SQL step of a
   user fails and cycles that an exception ends *)

\* "for username, raw_events in buffer_snapshot.items(): ..." with SQL errors
\* in the batches of some users, caught and logged per user
ProcessWithErrors(t, fail) ==
    /\ thread[t].pc = "process"
    /\ \A u \in Users : fail[u] \in 0..(Len(Coalesce(thread[t].snap[u])) + 1)
                        /\ (thread[t].snap[u] = <<>> => fail[u] = 0)
    /\ fail # NoFail
    /\ sessions' = [u \in Users |->
          IF thread[t].snap[u] = <<>> \/ ~stats_db[u] THEN sessions[u]
          ELSE FlushUserSessions(sessions[u], thread[t].snap[u], fail[u])]
    /\ events' = [u \in Users |->
          IF thread[t].snap[u] = <<>> \/ ~stats_db[u] THEN events[u]
          ELSE FlushUserEvents(events[u], thread[t].snap[u], fail[u])]
    /\ summary' = [u \in Users |->
          IF thread[t].snap[u] = <<>> \/ ~stats_db[u] THEN summary[u]
          ELSE FlushUserSummary(summary[u], sessions[u], thread[t].snap[u], fail[u])]
    /\ thread' = [thread EXCEPT ![t].pc = "finally"]
    /\ UNCHANGED <<stats_buffer, is_flushing, stats_db, upload, lastOp, nCalls, data_db,
                   timer, global_users, queue>>

\* an exception outside the two try blocks of the loop body (the sort and the
\* coalescing, the breakdown, the log lines) leaves the try block of the cycle
ProcessRaises(t) ==
    /\ thread[t].pc = "process"
    /\ thread' = [thread EXCEPT ![t].pc = "raising"]
    /\ UNCHANGED <<stats_buffer, is_flushing, sessions, events, summary, stats_db,
                   upload, lastOp, nCalls, data_db, timer, global_users, queue>>

\* variant: the exception leaves flush_stats without passing a finally clause
RaiseWithoutFinally(t) ==
    /\ thread[t].pc = "raising"
    /\ thread' = [thread EXCEPT ![t].pc = IF t = "request" THEN "returned" ELSE "idle"]
    /\ lastOp' = OpS("flush_stats", "", NoEntry, NoFail, 500)
    /\ UNCHANGED <<stats_buffer, is_flushing, sessions, events, summary, stats_db, upload,
                   nCalls, data_db, timer, global_users, queue>>

\* "finally: self._is_flushing = False" on the way out of a raising cycle; the
\* caller gets the exception (get_stats_summary reads no summary)
RaiseThroughFinally(t) ==
    /\ thread[t].pc = "raising"
    /\ is_flushing' = FALSE
    /\ thread' = [thread EXCEPT ![t].pc = IF t = "request" THEN "returned" ELSE "idle"]
    /\ lastOp' = OpS("flush_stats", "", NoEntry, NoFail, 500)
    /\ UNCHANGED <<stats_buffer, sessions, events, summary, stats_db, upload, nCalls,
                   data_db, timer, global_users, queue>>

NextGuard ==
    \/ NextConc
    \/ \E t \in Threads, fail \in FailSet : ProcessWithErrors(t, fail)
    \/ \E t \in Threads : ProcessRaises(t)
    \/ \E t \in Threads : RaiseThroughFinally(t)

SpecGuard == Init /\ [][NextGuard]_vars

----------------------------------------------------------------------------
(* Claims on the guard of flush_stats (SpecGuard) *)

GuardHeldBy(th) == th.pc \in {"snapshot", "clear", "process", "finally", "raising"}

\* C35: a flush_stats call that went into the cycle leaves the guard
\* _is_flushing False when it returns or raises, whether the buffers were
\* empty, a user's storage or summary step failed or an exception ended the
\* cycle; the guard is set only while a call is inside the cycle, so no later
\* trigger is blocked forever.
C35_GuardReleased ==
    [][/\ \A t \in Threads :
             (GuardHeldBy(thread[t]) /\ ~GuardHeldBy(thread'[t])) => ~is_flushing'
       /\ is_flushing' => \E t \in Threads : GuardHeldBy(thread'[t])]_vars

\* C35 witness: a cycle of the request thread that had taken a snapshot with
\* a report in it was ended by an exception, and the guard is False.
C35_Witness ==
    /\ lastOp.status = 500 /\ lastOp.op = "flush_stats"
    /\ thread["request"].pc = "returned"
    /\ thread["request"].snap[ReadUser] # <<>>
    /\ thread["periodic"].pc = "idle"
    /\ ~is_flushing


----------------------------------------------------------------------------
(* SpecForeign: flushes and stats merges into a store that starts empty, the
   uploaded file being any client file, also one with an event of a session
   that the file has no row for *)

ForeignSnapshots ==
    WindowUploads \cup
    { [sessions |-> ("s1" :> [start_time |-> 5000, end_time |-> 5000, platform |-> "ios"]),
       events |-> << Row("s1", SongA, "listen", 5000, 60000, 200000, 30, Unknown, Unknown),
                     Row("s9", SongC, "listen", 7000, 60000, 200000, 30, Unknown, Unknown) >>] }

InitForeign ==
    /\ stats_buffer = NoBuffers
    /\ is_flushing = FALSE
    /\ sessions = [u \in Users |-> NoSessions]
    /\ events = [u \in Users |-> <<>>]
    /\ summary = [u \in Users |-> NewSummary]
    /\ stats_db = [u \in Users |-> TRUE]
    /\ upload \in ForeignSnapshots
    /\ lastOp = Op("create_user", "", NoEntry, NoFail)
    /\ nCalls = 0
    /\ thread = IdleThreads
    /\ data_db = [u \in Users |-> {}]
    /\ timer = StartTimer
    /\ global_users = Users
    /\ queue = NoQueues

NextForeign ==
    \/ \E r \in WindowPool : nCalls < MaxWindowCalls /\ AppendStats(LiveUser, r)
    \/ \E fail \in FailSet : FailChoice(fail) /\ FlushStats(fail)
    \/ UploadStatsDb(LiveUser, upload)

SpecForeign == InitForeign /\ [][NextForeign]_vars

----------------------------------------------------------------------------
(* Claims on the session an event belongs to (SpecForeign) *)

\* C36: in every reachable store state every PlayEvent's session_id is the id
\* of an existing PlaySession row of the same user, after every flush and
\* after every stats merge, whatever the uploaded file holds.
C36_EventsNameSessions ==
    \A u \in Users : \A i \in 1..Len(events[u]) :
        events[u][i].session_id \in DOMAIN sessions[u]


----------------------------------------------------------------------------
(* SpecPlayTime: failure-free flushes of reports whose play times are not
   all whole hundredths of a second *)

MaxPlayTimeCalls == 3

\* a.mp3 twice for 1.004 s, b.mp3 for 0.125 s between them, c.mp3 for 2.25 s
\* and for 1.006 s in another session
PlayTimePool ==
    { Entry("s1", SongA, 1004, 100000, "listen", 1000, "ios", Unknown, Unknown),
      Entry("s1", SongA, 1004, 100000, "listen", 2000, "ios", Unknown, Unknown),
      Entry("s1", SongB, 125, 100000, "listen", 1500, "ios", Unknown, Unknown),
      Entry("s2", SongC, 2250, 100000, "listen", 3000, "ios", Unknown, Unknown),
      Entry("s2", SongC, 1006, 100000, "listen", 4000, "ios", Unknown, Unknown) }

NextPlayTime ==
    \/ \E r \in PlayTimePool : nCalls < MaxPlayTimeCalls /\ AppendStats(LiveUser, r)
    \/ FlushStats(NoFail)

SpecPlayTime == Init /\ [][NextPlayTime]_vars

----------------------------------------------------------------------------
(* Claims on the conservation of play time (SpecPlayTime) *)

Apart(x, y) == IF x > y THEN x - y ELSE y - x

\* the play time of the reports of a batch, of the rows a step stores and the
\* growth of total_play_time in a step
ReportedPlayTime(u) ==
    SumSeq([i \in 1..Len(stats_buffer[u]) |-> stats_buffer[u][i].duration_played])
StoredPlayTime(u) == PlayTimeOf(events'[u]) - PlayTimeOf(events[u])
SummaryPlayTime(u) == summary'[u].total_play_time - summary[u].total_play_time
RowsStored(u) == Len(events'[u]) - Len(events[u])

----------------------------------------------------------------------------
(* Claims on a stats merge that answers with an error (SpecMerge) *)

\* C38: a stats merge request that ends with the error response 500 'Stats
\* merge failed' has committed no foreign session and no foreign event: the
\* store is as it was before the request.
C38_ErrorLeavesStore ==
    [][(lastOp'.op = "upload_stats_db" /\ lastOp'.status = 500)
          => (sessions' = sessions /\ events' = events)]_vars

====
